---- MODULE Spec2Model ----
(***************************************************************************)
(* Model of the print-order workflow of microservice_mail:                 *)
(*   - OrderOrchestrator.process_orders      (orchestrator/app.py)         *)
(*   - OrderService.update_order_status      (services/order-service)      *)
(*   - FileService.get_drive_files behind cache_drive_search               *)
(*                                  (services/file-service, shared/cache)  *)
(*   - SimpleCache / FileCache                (shared/cache.py)            *)
(*                                                                         *)
(* File names are sequences of tokens (<<"a", ".pdf">> is "a.pdf"), so     *)
(* lower(), endswith('.pdf') and name + ".pdf" are computed, not assumed.  *)
(***************************************************************************)
EXTENDS Integers, Sequences, FiniteSets, TLC

VARIABLES
    \* ---- one run of OrderOrchestrator.process_orders
    pc,            \* position of the run inside process_orders
    health_idx,    \* index into services.items() of the probe to issue next
    calls,         \* every HTTP call the orchestrator has issued, in order
    order_data,    \* OrderData built by get_order_details
    file_data,     \* FileData built by check_files_availability
    emails_sent,   \* results["emails_sent"]
    ret,           \* the dict process_orders returns
    \* ---- one call of OrderService.update_order_status
    us_pc,         \* position inside update_order_status
    us_ids,        \* the order_ids argument
    us_i,          \* index of the order the for loop is at
    us_posts,      \* setOrderStatus posts issued to the platform, in order
    us_failed,     \* indices of the orders whose update failed
    us_ret,        \* return value of update_order_status
    \* ---- the two cache tiers and the cached resolver
    now,           \* time.time()
    hash_seed,     \* the hash randomisation seed of the running process
    memory_cache,  \* SimpleCache.cache: key -> entry
    cache_files,   \* files of FileCache.cache_dir: file name -> content
    driven,        \* the cache object a behaviour of SpecCache drives
    set_info,      \* key -> the ttl and the clock reading of the last set
    ops,           \* number of cache / resolver operations so far
    prev_op,       \* the cache / resolver operation before the last one
    last_op,       \* the last cache / resolver operation and what it did
    \* ---- one call of a function decorated with retry_on_failure
    rt_cfg,        \* max_retries, delay and backoff of the decorator
    rt_args,       \* to_email, subject and body of the send_email call
    rt_pc,         \* position inside retry_on_failure's wrapper
    attempt,       \* the loop variable of "for attempt in range(...)"
    current_delay, \* the delay the next time.sleep waits
    last_exception,\* the exception of the last failed attempt
    invocations,   \* outcome of every execution of the wrapped function
    sleeps,        \* every delay slept, in order
    \* ---- threads calling one cache object concurrently
    lock,          \* SimpleCache._lock: the thread holding it, or "free"
    th,            \* thread -> the operation it runs, its position and locals
    \* ---- single calls of the services' functions
    orders,        \* parsed_data['orders'] of the platform's getOrders answer
    os_call,       \* the last call of an OrderService query and its result
    fi_call        \* the last call of a get_format_info and its result

pipeVars  == <<pc, health_idx, calls, order_data, file_data, emails_sent, ret>>
orderVars == <<us_pc, us_ids, us_i, us_posts, us_failed, us_ret>>
cacheVars == <<now, hash_seed, memory_cache, cache_files, driven, set_info,
               ops, prev_op, last_op>>
retryVars == <<rt_cfg, rt_args, rt_pc, attempt, current_delay, last_exception,
               invocations, sleeps>>
threadVars == <<lock, th>>
svcVars   == <<orders, os_call, fi_call>>
vars      == <<pipeVars, orderVars, cacheVars, retryVars, threadVars, svcVars>>

(***************************************************************************)
(* Bounds of the model.                                                    *)
(***************************************************************************)
MaxFound == 2      \* longest list of files one provider search returns
MaxOrders == 2     \* longest order_ids list
MaxStatusIds == 3  \* longest order_ids list of one update_order_status call
MaxResolves == 2   \* resolve calls in one behaviour
MaxTtl == 2        \* largest ttl given to a direct set
MaxTime == 3       \* last clock reading of the direct cache operations
MaxKeyLen == 3     \* longest required_files list a cache key is computed for
MaxRetries == 3    \* largest max_retries a decorator is configured with
MaxPlatformOrders == 3  \* most orders of a getOrders answer
MaxProducts == 2   \* most line items of one order
MaxNameLen == 4    \* longest file name spelled character by character
MaxChunks == 3     \* most chunks of a file name put together from chunks

(***************************************************************************)
(* File names.                                                             *)
(***************************************************************************)
LowerTok(t) == CASE t = "A" -> "a" [] t = "B" -> "b" [] OTHER -> t

\* str.lower()
Lower(name) == [i \in 1..Len(name) |-> LowerTok(name[i])]

\* str.endswith('.pdf')
EndsWithPdf(name) == Len(name) > 0 /\ name[Len(name)] = ".pdf"

NameA    == <<"a", ".pdf">>
NameB    == <<"b", ".pdf">>
NameAUp  == <<"A", ".pdf">>
NameANoExt == <<"a">>

\* Range of a sequence
Range(s) == {s[i] : i \in 1..Len(s)}

\* {} of Python: the dict with no key
EmptyDict == [x \in {} |-> 0]

(***************************************************************************)
(* The storage provider (Google Drive), seen from FileService.             *)
(***************************************************************************)
DriveFile(id, name) == [id |-> id, name |-> name]

\* The files the provider stores: "a.pdf", "a" (no extension), "A.pdf" and
\* "xa.pdf" (its name contains the base name "a").
DriveFiles == { DriveFile("f1", NameA), DriveFile("f2", NameANoExt),
                DriveFile("f3", NameAUp), DriveFile("f4", <<"x", "a", ".pdf">>) }

\* The lists a provider search can return: up to MaxFound distinct files.
RECURSIVE ListsOver(_, _)
ListsOver(S, n) ==
    IF n = 0 THEN {<<>>}
    ELSE LET shorter == ListsOver(S, n - 1)
         IN  shorter \cup {Append(l, f) : l \in {x \in shorter : Len(x) = n - 1},
                                          f \in S}

NoRepeat(l) == \A i, j \in 1..Len(l) : i # j => l[i] # l[j]

FoundLists == {l \in ListsOver(DriveFiles, MaxFound) : NoRepeat(l)}

(***************************************************************************)
(* FileService.get_drive_files, the function cache_drive_search wraps.     *)
(***************************************************************************)
\* The loop "for file in found_files" building available_files and
\* found_file_names.
RECURSIVE BuildLookup(_, _, _, _)
BuildLookup(found, required_files_lower, available_files, found_file_names) ==
    IF found = <<>> THEN [available_files |-> available_files,
                          found_file_names |-> found_file_names]
    ELSE LET file == Head(found)
             file_name_lower == Lower(file.name)
             av1 == (file_name_lower :> file) @@ available_files
             fn1 == found_file_names \cup {file_name_lower}
             pdf_name == Append(file_name_lower, ".pdf")
             alt == ~EndsWithPdf(file_name_lower)
                    /\ pdf_name \in Range(required_files_lower)
             av2 == IF alt THEN (pdf_name :> file) @@ av1 ELSE av1
             fn2 == IF alt THEN fn1 \cup {pdf_name} ELSE fn1
         IN  BuildLookup(Tail(found), required_files_lower, av2, fn2)

\* What get_drive_files returns: a tuple (available_files, missing_files).
\* search_raises: service.files().list(...).execute() raised inside the try.
DriveResult(available_files, missing_files) ==
    [kind |-> "tuple", available_files |-> available_files,
     missing_files |-> missing_files]

OnSearchError == DriveResult(EmptyDict, <<>>)

get_drive_files(required_files, found_files, search_raises) ==
    IF search_raises THEN OnSearchError
    ELSE LET required_files_lower == [i \in 1..Len(required_files) |->
                                        Lower(required_files[i])]
             lk == BuildLookup(found_files, required_files_lower, EmptyDict, {})
             missing_files == SelectSeq(required_files,
                                LAMBDA name : Lower(name) \notin lk.found_file_names)
         IN  DriveResult(lk.available_files, missing_files)

\* The files get_drive_files shares with share_email: every found file.
SharedFiles(found_files, search_raises) ==
    IF search_raises THEN {} ELSE {found_files[i].id : i \in 1..Len(found_files)}

(***************************************************************************)
(* OrderOrchestrator: the HTTP calls of one run and what each method makes *)
(* of the response.  A response is "exception" (the request raised),       *)
(* "non200", "unparsable" (200 whose body is not JSON) or "ok" (200 with   *)
(* the body the collaborating service of this repository sends).           *)
(***************************************************************************)
RespKinds == {"exception", "non200", "unparsable", "ok"}

\* services.items() of process_orders, in insertion order
Services == <<"order-service", "file-service", "email-service">>

OrderData(order_ids, files, quantities) ==
    [order_ids |-> order_ids, files |-> files, quantities |-> quantities]

FileData(available_files, missing_files, total_found) ==
    [available_files |-> available_files, missing_files |-> missing_files,
     total_found |-> total_found]

\* One issued call: the operation, its arguments, the response and what the
\* orchestrator's method returned for it (ok: its truth value).
Call(op, svc, ids, files, resp, ok) ==
    [op |-> op, svc |-> svc, ids |-> ids, files |-> files, resp |-> resp, ok |-> ok]

\* Mutant: a probe answered with a status other than 200 counts as healthy
check_service_health_NoStatus(kind) == kind # "exception"

\* check_service_health
check_service_health(kind) == kind = "ok"

\* check_for_new_orders
check_for_new_orders(kind, has_new_orders) ==
    IF kind = "ok" THEN has_new_orders ELSE FALSE

\* get_order_details
get_order_details(kind, data) ==
    IF kind = "ok" THEN OrderData(data.order_ids, data.files, data.quantities)
    ELSE OrderData(<<>>, <<>>, EmptyDict)

\* check_files_availability
check_files_availability(kind, data) ==
    IF kind = "ok"
    THEN FileData(data.available_files, data.missing_files, data.total_found)
    ELSE FileData(EmptyDict, <<>>, 0)

\* Mutant: the status code alone decides
SendResult_StatusOnly(kind, success) == kind = "ok"

\* send_print_order_email / send_missing_files_email / update_order_status:
\* response.status_code == 200 and response.json().get("success", False)
SendResult(kind, success) == kind = "ok" /\ success

\* The response of a send as the calls record it: a 200 whose body does not
\* report success is told apart from one that does
SendResp(kind, success) ==
    IF kind = "ok" /\ ~success THEN "ok_no_success" ELSE kind

\* The body of POST /files/check of the file service (check_files)
CheckFilesBody(required_files, found_files, search_raises) ==
    LET r == get_drive_files(required_files, found_files, search_raises)
    IN  [available_files |-> r.available_files,
         missing_files |-> r.missing_files,
         total_found |-> Cardinality(DOMAIN r.available_files)]

\* The bodies GET /orders/details of the order service can send: order ids
\* as strings, lower-cased "<sku>.pdf" file names and their quantities.
OrderIdLists == {l \in ListsOver({"1001", "1002"}, MaxOrders) : NoRepeat(l)}

FileLists == {<<>>, <<NameA>>, <<NameA, NameB>>, <<NameB, NameA, NameA>>}

DetailsBodies ==
    {b \in {[order_ids |-> ids, files |-> fs,
             quantities |-> [n \in Range(fs) |-> 1]] :
               ids \in OrderIdLists, fs \in FileLists} :
        \* no valid order: get_order_details returns the empty output
        b.order_ids = <<>> => b.files = <<>>}

\* A JSON value of a 200 body where the service of this repository sends a
\* list and that len() rejects (a number, true).  It is truthy.  The model
\* writes it as a tuple holding a token no list holds, so that it can stand
\* in the fields that hold lists.
NotSized == <<"#number">>

\* len(v) raises TypeError
LenRaises(v) == v = NotSized

\* 200 bodies of GET /orders/details that are JSON objects with order_ids
\* not a list
MistypedDetails ==
    {[order_ids |-> NotSized, files |-> fs, quantities |-> [n \in Range(fs) |-> 1]] :
        fs \in {<<>>, <<NameA>>}}

NoResults == [orders_processed |-> 0, files_found |-> 0, missing_files |-> 0,
              emails_sent |-> 0]

\* The dict process_orders returns: {"success", "error"}, {"success",
\* "message"} or {"success", "results"}; has names the second key.
Return(success, has, text, results) ==
    [success |-> success, has |-> has, text |-> text, results |-> results]

\* Mutant: process_orders without its "except Exception"
Failed_Reraise(exc) == Return(FALSE, "raised", exc, NoResults)

\* process_orders: "except Exception as e: return {"success": False,
\* "error": str(e)}"
Failed(exc) == Return(FALSE, "error", exc, NoResults)

InitPipe ==
    /\ pc = "health"
    /\ health_idx = 1
    /\ calls = <<>>
    /\ order_data = OrderData(<<>>, <<>>, EmptyDict)
    /\ file_data = FileData(EmptyDict, <<>>, 0)
    /\ emails_sent = 0
    /\ ret = Return(FALSE, "nothing", "", NoResults)

\* process_orders, the health loop: one probe per step
ProbeHealth ==
    /\ pc = "health"
    /\ \E kind \in RespKinds \ {"unparsable"} :
         LET svc == Services[health_idx]
             healthy == check_service_health(kind)
         IN  /\ calls' = Append(calls, Call("health", svc, <<>>, <<>>, kind, healthy))
             /\ IF ~healthy
                THEN /\ ret' = Return(FALSE, "error", "is not available", NoResults)
                     /\ pc' = "done"
                     /\ UNCHANGED health_idx
                ELSE /\ UNCHANGED ret
                     /\ IF health_idx = Len(Services)
                        THEN pc' = "check_orders" /\ UNCHANGED health_idx
                        ELSE pc' = pc /\ health_idx' = health_idx + 1
    /\ UNCHANGED <<order_data, file_data, emails_sent>>
    /\ UNCHANGED <<orderVars, cacheVars, retryVars, threadVars, svcVars>>

\* Mutant: the run goes on to the details whatever check-new reported
NoNewOrders_Never(has) == FALSE

\* process_orders: the condition of "if not self.check_for_new_orders():"
NoNewOrders(has) == ~has

\* process_orders: "if not self.check_for_new_orders()"
CheckOrders ==
    /\ pc = "check_orders"
    /\ \E kind \in RespKinds, has_new_orders \in BOOLEAN :
         LET has == check_for_new_orders(kind, has_new_orders)
         IN  /\ kind # "ok" => has_new_orders = FALSE
             /\ calls' = Append(calls, Call("check", "", <<>>, <<>>, kind, has))
             /\ IF NoNewOrders(has)
                THEN /\ ret' = Return(TRUE, "message", "No new orders to process", NoResults)
                     /\ pc' = "done"
                ELSE pc' = "get_details" /\ UNCHANGED ret
    /\ UNCHANGED <<health_idx, order_data, file_data, emails_sent>>
    /\ UNCHANGED <<orderVars, cacheVars, retryVars, threadVars, svcVars>>

\* process_orders: "order_data = self.get_order_details()", the 200 bodies
\* drawn from bodies
GetDetailsFrom(bodies) ==
    /\ pc = "get_details"
    /\ \E kind \in RespKinds, data \in bodies :
         LET od == get_order_details(kind, data)
             resp == IF kind = "ok" /\ data \in MistypedDetails
                     THEN "ok_mistyped" ELSE kind
         IN  /\ kind # "ok" => data.order_ids = <<>>
             /\ calls' = Append(calls, Call("details", "", <<>>, <<>>, resp,
                                            od.order_ids # <<>>))
             /\ order_data' = od
             /\ IF od.order_ids = <<>>
                THEN /\ ret' = Return(TRUE, "message",
                                      "No valid orders after processing", NoResults)
                     /\ pc' = "done"
                ELSE pc' = "check_files" /\ UNCHANGED ret
    /\ UNCHANGED <<health_idx, file_data, emails_sent>>
    /\ UNCHANGED <<orderVars, cacheVars, retryVars, threadVars, svcVars>>

\* The order service of this repository answers GET /orders/details
GetDetails == GetDetailsFrom(DetailsBodies) /\ pc' \in {"done", "check_files"}

\* process_orders: "file_data = self.check_files_availability(order_data.files)"
\* and the results dict built from it, whose len() calls raise into the
\* except clause of process_orders; mistyped: the 200 body may hold a
\* missing_files that is not a list
CheckFilesFrom(mistyped) ==
    /\ pc = "check_files"
    /\ \E kind \in RespKinds, found \in FoundLists, search_raises \in BOOLEAN,
          shape \in {"as_sent"} \cup mistyped :
         LET sent == CheckFilesBody(order_data.files, found, search_raises)
             body == IF shape = "as_sent" THEN sent
                     ELSE [sent EXCEPT !.missing_files = NotSized]
             fd == check_files_availability(kind, body)
             resp == IF kind = "ok" /\ search_raises THEN "ok_search_raised"
                     ELSE IF kind = "ok" /\ shape # "as_sent" THEN "ok_mistyped"
                     ELSE kind
         IN  /\ kind # "ok" => found = <<>> /\ ~search_raises /\ shape = "as_sent"
             /\ search_raises => found = <<>>
             /\ calls' = Append(calls, Call("files", "", <<>>, order_data.files,
                                            resp, kind = "ok"))
             /\ file_data' = fd
             /\ IF LenRaises(order_data.order_ids) \/ LenRaises(fd.missing_files)
                THEN pc' = "done" /\ ret' = Failed("TypeError")
                ELSE pc' = "print_email" /\ UNCHANGED ret
    /\ emails_sent' = 0
    /\ UNCHANGED <<health_idx, order_data>>
    /\ UNCHANGED <<orderVars, cacheVars, retryVars, threadVars, svcVars>>

\* The file service of this repository answers POST /files/check
CheckFiles == CheckFilesFrom({}) /\ pc' \in {"done", "print_email"}

\* Collaborators that answer 200 with bodies of any shape
GetAnyDetails ==
    GetDetailsFrom(DetailsBodies \cup MistypedDetails) /\ pc' \in {"done", "check_files"}

CheckAnyFiles == CheckFilesFrom({"mistyped"}) /\ pc' \in {"done", "print_email"}

\* Mutant: the print-order email is sent whatever was found
PrintEmailDue_Always == TRUE

\* process_orders: "if file_data.available_files:"
PrintEmailDue == file_data.available_files # EmptyDict

\* Mutant: "elif file_data.missing_files:"
MissingEmailDue_Elif ==
    file_data.available_files = EmptyDict /\ file_data.missing_files # <<>>

\* process_orders: "if file_data.missing_files:"
MissingEmailDue == file_data.missing_files # <<>>

\* Mutant: the status update placed before the missing-files block
AfterPrintEmail_Update == "update_status"

\* The statement process_orders goes to after the print-order block
AfterPrintEmail == "missing_email"

\* The statement process_orders goes to after the missing-files block
AfterMissingEmail == "update_status"

\* Mutant: only the first order of the batch is updated
UpdateStatusArg_First == SubSeq(order_data.order_ids, 1, 1)

\* The argument of self.update_order_status(...)
UpdateStatusArg == order_data.order_ids

\* process_orders: the print-order block
PrintOrderEmail ==
    /\ pc = "print_email"
    /\ IF PrintEmailDue
       THEN \E kind \in RespKinds, success \in BOOLEAN :
              LET sent == SendResult(kind, success)
              IN  /\ kind # "ok" => ~success
                  /\ calls' = Append(calls, Call("print_email", "", order_data.order_ids,
                                                 <<>>, SendResp(kind, success), sent))
                  /\ emails_sent' = IF sent THEN emails_sent + 1 ELSE emails_sent
       ELSE UNCHANGED <<calls, emails_sent>>
    /\ pc' = AfterPrintEmail
    /\ UNCHANGED <<health_idx, order_data, file_data, ret>>
    /\ UNCHANGED <<orderVars, cacheVars, retryVars, threadVars, svcVars>>

\* process_orders: the missing-files block
MissingFilesEmail ==
    /\ pc = "missing_email"
    /\ IF MissingEmailDue
       THEN \E kind \in RespKinds, success \in BOOLEAN :
              LET sent == SendResult(kind, success)
              IN  /\ kind # "ok" => ~success
                  /\ calls' = Append(calls, Call("missing_email", "", order_data.order_ids,
                                                 file_data.missing_files,
                                                 SendResp(kind, success), sent))
                  /\ emails_sent' = IF sent THEN emails_sent + 1 ELSE emails_sent
       ELSE UNCHANGED <<calls, emails_sent>>
    /\ pc' = AfterMissingEmail
    /\ UNCHANGED <<health_idx, order_data, file_data, ret>>
    /\ UNCHANGED <<orderVars, cacheVars, retryVars, threadVars, svcVars>>

\* process_orders: "if self.update_order_status(order_data.order_ids)" and
\* the return of the results
UpdateStatus ==
    /\ pc = "update_status"
    /\ \E kind \in RespKinds, success \in BOOLEAN :
         /\ kind # "ok" => ~success
         /\ calls' = Append(calls, Call("update_status", "", UpdateStatusArg,
                                        <<>>, kind, SendResult(kind, success)))
    /\ ret' = Return(TRUE, "results", "",
                     [orders_processed |-> Len(order_data.order_ids),
                      files_found |-> file_data.total_found,
                      missing_files |-> Len(file_data.missing_files),
                      emails_sent |-> emails_sent])
    /\ pc' = "done"
    /\ UNCHANGED <<health_idx, order_data, file_data, emails_sent>>
    /\ UNCHANGED <<orderVars, cacheVars, retryVars, threadVars, svcVars>>

NextPipe ==
    \/ ProbeHealth
    \/ CheckOrders
    \/ GetDetails
    \/ CheckFiles
    \/ PrintOrderEmail
    \/ MissingFilesEmail
    \/ UpdateStatus

\* One run against collaborators that may answer with bodies of any shape
NextAnyBody ==
    \/ ProbeHealth
    \/ CheckOrders
    \/ GetAnyDetails
    \/ CheckAnyFiles
    \/ PrintOrderEmail
    \/ MissingFilesEmail
    \/ UpdateStatus

(***************************************************************************)
(* OrderService.is_payment_valid, check_for_new_orders and                 *)
(* get_order_details on the orders of one getOrders answer.  An order is   *)
(* a dict: a function from the keys it has; the payment keys may be        *)
(* missing.  A product name is a sequence of words, a sku a file name      *)
(* without extension.                                                      *)
(***************************************************************************)
\* dict.get(key, default)
Get(d, key, default) == IF key \in DOMAIN d THEN d[key] ELSE default

\* Mutant: only a payment marked done is valid
is_payment_valid_DoneOnly(order) == Get(order, "payment_done", 0) # 0

is_payment_valid(order) ==
    LET payment_done == Get(order, "payment_done", 0)
        payment_method_cod == Get(order, "payment_method_cod", 0)
    IN  payment_done # 0 \/ (payment_done = 0 /\ payment_method_cod = 1)

\* "valid_orders = [order for order in orders if self.is_payment_valid(order)]"
ValidOrders(os) == SelectSeq(os, is_payment_valid)

\* OrderService.check_for_new_orders
os_check_for_new_orders(os) ==
    IF os = <<>> THEN FALSE ELSE ValidOrders(os) # <<>>

\* str(order_id)
Str(order_id) == CASE order_id = 1001 -> "1001"
                   [] order_id = 1002 -> "1002"
                   [] order_id = 1003 -> "1003"

\* 'Skarpety' in product.get('name', '')
IsSocks(product) == "Skarpety" \in Range(Get(product, "name", <<>>))

\* f"{sku}.pdf".lower()
Filename(sku) == Lower(Append(sku, ".pdf"))

\* get_order_details: the loop "for product in products"
RECURSIVE AddProducts(_, _)
AddProducts(products, output) ==
    IF products = <<>> THEN output
    ELSE LET product == Head(products)
             filename == Filename(product.sku)
         IN  IF IsSocks(product) THEN AddProducts(Tail(products), output)
             ELSE AddProducts(Tail(products),
                    [output EXCEPT
                       !.files = Append(@, filename),
                       !.quantities = (filename :> product.quantity) @@ @])

\* get_order_details: the loop "for order in valid_orders"
RECURSIVE AddOrders(_, _)
AddOrders(valid_orders, output) ==
    IF valid_orders = <<>> THEN output
    ELSE LET order == Head(valid_orders)
             with_id == [output EXCEPT
                           !.order_ids = Append(@, Str(order.order_id))]
         IN  AddOrders(Tail(valid_orders), AddProducts(order.products, with_id))

\* OrderService.get_order_details
os_get_order_details(os) ==
    AddOrders(ValidOrders(os),
              [files |-> <<>>, quantities |-> EmptyDict, order_ids |-> <<>>])

\* The payment keys of an order: payment_done missing, 0, 1 or 2 and
\* payment_method_cod missing, 0 or 1 (-1 stands for a missing key here)
Payments ==
    {(IF done = -1 THEN EmptyDict ELSE [payment_done |-> done])
       @@ (IF cod = -1 THEN EmptyDict ELSE [payment_method_cod |-> cod]) :
         done \in -1..2, cod \in -1..1}

Product(name, sku, quantity) == [name |-> name, sku |-> sku, quantity |-> quantity]

Order(order_id, payment, products) ==
    [order_id |-> order_id, products |-> products] @@ payment

\* Line items: two posters of sku A and a (one file name), one of sku b,
\* and socks
ProductPool == { Product(<<"Plakat">>, <<"A">>, 1),
                 Product(<<"Plakat">>, <<"a">>, 2),
                 Product(<<"Plakat">>, <<"b">>, 1),
                 Product(<<"Skarpety", "XL">>, <<"b">>, 2) }

\* Answers that differ in the payment keys: up to MaxPlatformOrders orders
\* of one poster each
PaymentAnswers ==
    {[i \in 1..Len(l) |-> Order(1000 + i, l[i], <<Product(<<"Plakat">>, <<"a">>, 1)>>)] :
        l \in ListsOver(Payments, MaxPlatformOrders)}

\* Answers that differ in the line items: up to two orders, paid or not,
\* of up to MaxProducts line items each
ProductAnswers ==
    LET os == {[pay |-> pay, products |-> ps] :
                 pay \in {[payment_done |-> 1], [payment_done |-> 0]},
                 ps \in ListsOver(ProductPool, MaxProducts)}
    IN  {[i \in 1..Len(l) |-> Order(1000 + i, l[i].pay, l[i].products)] :
            l \in ListsOver(os, 2)}

PlatformAnswers == PaymentAnswers \cup ProductAnswers

InitSvc ==
    /\ orders \in PlatformAnswers
    /\ os_call = [op |-> "none"]
    /\ fi_call = [op |-> "none"]

\* GET /orders/check
CheckForNewOrders ==
    /\ os_call.op = "none"
    /\ os_call' = [op |-> "check", result |-> os_check_for_new_orders(orders)]
    /\ UNCHANGED <<orders, fi_call>>
    /\ UNCHANGED <<pipeVars, orderVars, cacheVars, retryVars, threadVars>>

\* GET /orders/details
GetOrderDetails ==
    /\ os_call.op = "none"
    /\ os_call' = [op |-> "details", result |-> os_get_order_details(orders)]
    /\ UNCHANGED <<orders, fi_call>>
    /\ UNCHANGED <<pipeVars, orderVars, cacheVars, retryVars, threadVars>>

NextSvc ==
    \/ CheckForNewOrders
    \/ GetOrderDetails

(***************************************************************************)
(* get_format_info of the email service and of the file service.  Here a   *)
(* file name is a sequence of characters.                                  *)
(***************************************************************************)
\* str.endswith(suffix)
EndsWith(str, suffix) ==
    /\ Len(str) >= Len(suffix)
    /\ SubSeq(str, Len(str) - Len(suffix) + 1, Len(str)) = suffix

\* "sub in str"
Contains(str, sub) ==
    \E i \in 1..(Len(str) - Len(sub) + 1) : SubSeq(str, i, i + Len(sub) - 1) = sub

\* EmailService.get_format_info
email_get_format_info(filename) ==
    LET filename_lower == Lower(filename)
    IN  IF EndsWith(filename_lower, <<"_", "b", "2">>)
           \/ Contains(filename_lower, <<"_", "b", "2">>)
        THEN "format 50 x 70 cm"
        ELSE IF EndsWith(filename_lower, <<"_", "4", "5">>) THEN "format 40x50 cm"
        ELSE IF Contains(filename_lower, <<"_", "a", "3">>) THEN "format 30x40 cm"
        ELSE ""

\* FileService.get_format_info
file_get_format_info(filename) ==
    LET filename_lower == Lower(filename)
    IN  IF EndsWith(filename_lower, <<"_", "b", "2">>)
           \/ Contains(filename_lower, <<"_", "b", "2">>)
        THEN "format 50 x 70 cm"
        ELSE IF EndsWith(filename_lower, <<"4", "5">>) THEN "format 40x50 cm"
        ELSE IF Contains(filename_lower, <<"_", "a", "3">>) THEN "format 30x40 cm"
        ELSE ""

\* The concatenation of the sequences of a list
RECURSIVE Concat(_)
Concat(l) == IF l = <<>> THEN <<>> ELSE Head(l) \o Concat(Tail(l))

\* File names: every name of up to MaxNameLen of these characters, and the
\* names put together from up to MaxChunks of these chunks
NameChars == {"_", "b", "B", "2", "4", "5", "a", "3", "x"}

NameChunks == { <<"_", "b", "2">>, <<"_", "B", "2">>, <<"_", "4", "5">>,
                <<"4", "5">>, <<"_", "a", "3">>, <<"_", "A", "3">>,
                <<"x">>, <<".", "p", "d", "f">> }

FormatNames ==
    ListsOver(NameChars, MaxNameLen)
    \cup {Concat(l) : l \in ListsOver(NameChunks, MaxChunks)}

\* The email service annotates a file of the print-order email
EmailFormatInfo ==
    /\ fi_call.op = "none"
    /\ \E filename \in FormatNames :
         fi_call' = [op |-> "format", service |-> "email", filename |-> filename,
                     format_info |-> email_get_format_info(filename)]
    /\ UNCHANGED <<orders, os_call>>
    /\ UNCHANGED <<pipeVars, orderVars, cacheVars, retryVars, threadVars>>

\* GET /files/format of the file service
FileFormatInfo ==
    /\ fi_call.op = "none"
    /\ \E filename \in FormatNames :
         fi_call' = [op |-> "format", service |-> "file", filename |-> filename,
                     format_info |-> file_get_format_info(filename)]
    /\ UNCHANGED <<orders, os_call>>
    /\ UNCHANGED <<pipeVars, orderVars, cacheVars, retryVars, threadVars>>

NextFormat ==
    \/ EmailFormatInfo
    \/ FileFormatInfo

(***************************************************************************)
(* OrderService.update_order_status: the per-order loop inside one try.    *)
(***************************************************************************)
\* int(order_id_str) succeeds
IsIntString(id) == id \in {"1001", "1002"}

\* The order_ids lists POST /orders/status can carry
StatusIdLists == {l \in ListsOver({"1001", "1002", "abc"}, MaxStatusIds) : NoRepeat(l)}

\* What the platform does with one setOrderStatus post: it answers with
\* success, answers with an error, or the request raises.
PostOutcomes == {"ok", "error_response", "exception"}

\* An exception inside the loop leaves the for loop: the try encloses it.
AfterException(ids, i) == Len(ids) + 1

InitOrders ==
    /\ us_pc = "loop"
    /\ us_ids \in StatusIdLists
    /\ us_i = 1
    /\ us_posts = <<>>
    /\ us_failed = {}
    /\ us_ret = "none"

\* One iteration of "for order_id_str in order_ids"
UpdateOneOrder ==
    /\ us_pc = "loop"
    /\ us_i <= Len(us_ids)
    /\ IF ~IsIntString(us_ids[us_i])
       THEN \* int() raises ValueError: caught by the except around the loop
            /\ us_failed' = us_failed \cup {us_i}
            /\ us_i' = AfterException(us_ids, us_i)
            /\ us_ret' = "False"
            /\ us_pc' = "done"
            /\ UNCHANGED us_posts
       ELSE \E outcome \in PostOutcomes :
              /\ us_posts' = Append(us_posts, [order_id |-> us_ids[us_i],
                                               outcome |-> outcome])
              /\ IF outcome = "exception"
                 THEN /\ us_failed' = us_failed \cup {us_i}
                      /\ us_i' = AfterException(us_ids, us_i)
                      /\ us_ret' = "False"
                      /\ us_pc' = "done"
                 ELSE \* the response is not inspected
                      /\ us_failed' = IF outcome = "ok" THEN us_failed
                                      ELSE us_failed \cup {us_i}
                      /\ us_i' = us_i + 1
                      /\ UNCHANGED <<us_ret, us_pc>>
    /\ UNCHANGED us_ids
    /\ UNCHANGED <<pipeVars, cacheVars, retryVars, threadVars, svcVars>>

\* The loop is over: "return True"
UpdateReturn ==
    /\ us_pc = "loop"
    /\ us_i > Len(us_ids)
    /\ us_ret' = "True"
    /\ us_pc' = "done"
    /\ UNCHANGED <<us_ids, us_i, us_posts, us_failed>>
    /\ UNCHANGED <<pipeVars, cacheVars, retryVars, threadVars, svcVars>>

NextOrders ==
    \/ UpdateOneOrder
    \/ UpdateReturn

(***************************************************************************)
(* shared/cache.py: cache keys.                                            *)
(***************************************************************************)
\* Code point order of the characters the tokens start with
TokRank(t) == CASE t = "," -> 0 [] t = ".pdf" -> 1 [] t = "A" -> 2
                [] t = "a" -> 3 [] t = "b" -> 4 [] OTHER -> 5

\* str < str of Python: lexicographic
RECURSIVE NameLess(_, _)
NameLess(n1, n2) ==
    IF n1 = <<>> THEN n2 # <<>>
    ELSE IF n2 = <<>> THEN FALSE
    ELSE IF Head(n1) # Head(n2) THEN TokRank(Head(n1)) < TokRank(Head(n2))
    ELSE NameLess(Tail(n1), Tail(n2))

\* sorted(list)
RECURSIVE Insert(_, _)
Insert(n, sorted) ==
    IF sorted = <<>> THEN <<n>>
    ELSE IF NameLess(n, Head(sorted)) THEN <<n>> \o sorted
    ELSE <<Head(sorted)>> \o Insert(n, Tail(sorted))

RECURSIVE Sorted(_)
Sorted(l) == IF l = <<>> THEN <<>> ELSE Insert(Head(l), Sorted(Tail(l)))

\* ','.join(list)
RECURSIVE Join(_)
Join(l) ==
    IF l = <<>> THEN <<>>
    ELSE IF Len(l) = 1 THEN Head(l)
    ELSE Head(l) \o <<",">> \o Join(Tail(l))

\* hash(str): a function of the string and of the process's seed
Hash(str, seed) == [seed |-> seed, str |-> str]

\* Mutant: the names are joined in the order of the request
FilesStr_Unsorted(required_files) == Join(required_files)

\* get_drive_files_cache_key: f"drive_files:{folder_id}:{hash(files_str)}"
FilesStr(required_files) == Join(Sorted(required_files))

get_drive_files_cache_key(folder_id, required_files) ==
    [prefix |-> "drive_files", folder_id |-> folder_id,
     hash |-> Hash(FilesStr(required_files), hash_seed)]

\* FileCache._get_cache_file: "<md5 of the key>.json"
CacheFile(key) == [md5 |-> key, ext |-> ".json"]

(***************************************************************************)
(* shared/cache.py: SimpleCache and FileCache.                             *)
(***************************************************************************)
MemoryTtl == 300     \* memory_cache.set(cache_key, result, 300)
FileTtl == 1800      \* file_cache.set(cache_key, result, 1800)

\* None of Python
NoneVal == [kind |-> "None"]

\* del d[k]
Remove(d, k) == [x \in DOMAIN d \ {k} |-> d[x]]

\* d[k] = v
Put(d, k, v) == (k :> v) @@ d

\* Mutant: an entry is expired from the instant expires_at on
Expired_AtExpiry(t, expires_at) == t >= expires_at

\* The expiry test of SimpleCache.get and FileCache.get
Expired(t, expires_at) == t > expires_at

\* SimpleCache.get at time t: the cache after it and what it returns
\* Mutant: an expired entry is reported absent and left in place
SimpleCacheGet_KeepExpired(cache, key, t) ==
    IF key \notin DOMAIN cache THEN [cache |-> cache, result |-> NoneVal]
    ELSE IF Expired(t, cache[key].expires_at)
         THEN [cache |-> cache, result |-> NoneVal]
         ELSE [cache |-> cache, result |-> cache[key].value]

SimpleCacheGet(cache, key, t) ==
    IF key \notin DOMAIN cache THEN [cache |-> cache, result |-> NoneVal]
    ELSE IF Expired(t, cache[key].expires_at)
         THEN [cache |-> Remove(cache, key), result |-> NoneVal]
         ELSE [cache |-> cache, result |-> cache[key].value]

\* SimpleCache.set: time.time() is read twice, t_exp then t_created
SimpleCacheSet(cache, key, value, ttl, t_exp, t_created) ==
    Put(cache, key, [value |-> value, expires_at |-> t_exp + ttl,
                     created_at |-> t_created])

\* SimpleCache.stats: "current_time <= entry['expires_at']"
Active(t, expires_at) == t <= expires_at

\* Mutant: counting removes the expired entries
SimpleCacheStats_Evicting(cache, t) ==
    LET active == {k \in DOMAIN cache : Active(t, cache[k].expires_at)}
    IN  [cache |-> [k \in active |-> cache[k]],
         result |-> [total_entries |-> Cardinality(DOMAIN cache),
                     active_entries |-> Cardinality(active),
                     expired_entries |-> Cardinality(DOMAIN cache) - Cardinality(active)]]

\* SimpleCache.stats: the cache after the call and the dict returned
SimpleCacheStats(cache, t) ==
    LET active_entries ==
            Cardinality({k \in DOMAIN cache : Active(t, cache[k].expires_at)})
        expired_entries == Cardinality(DOMAIN cache) - active_entries
    IN  [cache |-> cache,
         result |-> [total_entries |-> Cardinality(DOMAIN cache),
                     active_entries |-> active_entries,
                     expired_entries |-> expired_entries]]

\* json.load(json.dump(value)): a tuple comes back as a list
Json(value) == IF value.kind = "tuple" THEN [value EXCEPT !.kind = "list"]
               ELSE value

\* What a cache file can hold besides an entry ("json"):
\*   "truncated"       cut short or otherwise not JSON
\*   "bad_encoding"    bytes that are not UTF-8
\*   "not_object"      JSON that is a list, a number or a string
\*   "no_expires_at"   an object without the key expires_at
\*   "bad_expires_at"  an object whose expires_at is a string or null
\*   "no_value"        an object without the key value
\*   "unreadable"      a file open() is denied
\*   "directory"       a directory of that name
CorruptKinds == {"truncated", "bad_encoding", "not_object", "no_expires_at",
                 "bad_expires_at", "no_value", "unreadable", "directory"}

\* An exception that leaves the method
Raised(exc) == [kind |-> "raised", exc |-> exc]

\* The exception the try block of FileCache.get ends with for a file of the
\* kind read at time t, "none" when it returns
GetTryRaises(content, t) ==
    CASE content.kind = "truncated" -> "JSONDecodeError"
      [] content.kind = "bad_encoding" -> "UnicodeDecodeError"
      [] content.kind = "not_object" -> "TypeError"
      [] content.kind = "no_expires_at" -> "KeyError"
      [] content.kind = "bad_expires_at" -> "TypeError"
      [] content.kind = "no_value" ->
            IF Expired(t, content.expires_at) THEN "none" ELSE "KeyError"
      [] content.kind = "unreadable" -> "PermissionError"
      [] content.kind = "directory" -> "IsADirectoryError"
      [] OTHER -> "none"

\* except (json.JSONDecodeError, KeyError, OSError)
Caught == {"JSONDecodeError", "KeyError", "PermissionError", "IsADirectoryError"}

\* FileCache.get at time t: the directory after it and what it returns
FileCacheGet(files, key, t) ==
    LET cache_file == CacheFile(key) IN
    IF cache_file \notin DOMAIN files THEN [files |-> files, result |-> NoneVal]
    ELSE LET content == files[cache_file]
             exc == GetTryRaises(content, t)
         IN  IF exc = "none"
             THEN IF Expired(t, content.expires_at)
                  THEN [files |-> Remove(files, cache_file), result |-> NoneVal]
                  ELSE [files |-> files, result |-> content.value]
             ELSE IF exc \notin Caught
             THEN [files |-> files, result |-> Raised(exc)]
             ELSE IF content.kind = "directory"
             THEN \* cache_file.unlink() of the handler raises in its turn
                  [files |-> files, result |-> Raised("IsADirectoryError")]
             ELSE [files |-> Remove(files, cache_file), result |-> NoneVal]

\* FileCache.set; io is what open(cache_file, 'w') and json.dump do:
\* "written", "open_failed" (OSError before the file is touched) or
\* "write_failed" (OSError after open truncated the file)
FileWrites == {"written", "open_failed", "write_failed"}

Truncated == [kind |-> "truncated", value |-> NoneVal, expires_at |-> 0,
              created_at |-> 0, key |-> NoneVal]

FileCacheSet(files, key, value, ttl, t_exp, t_created, io) ==
    LET cache_file == CacheFile(key) IN
    IF io = "written"
    THEN Put(files, cache_file, [kind |-> "json", value |-> Json(value),
                                 expires_at |-> t_exp + ttl,
                                 created_at |-> t_created, key |-> key])
    ELSE IF io = "write_failed" THEN Put(files, cache_file, Truncated)
    ELSE files

\* An entry as a get meets it, or the absence of one
NoEntry == [kind |-> "absent", value |-> NoneVal, expires_at |-> 0, created_at |-> 0]

MemEntry(cache, key) ==
    IF key \in DOMAIN cache
    THEN [kind |-> "json", value |-> cache[key].value,
          expires_at |-> cache[key].expires_at, created_at |-> cache[key].created_at]
    ELSE NoEntry

FileEntry(files, key) ==
    IF CacheFile(key) \in DOMAIN files
    THEN [kind |-> files[CacheFile(key)].kind, value |-> files[CacheFile(key)].value,
          expires_at |-> files[CacheFile(key)].expires_at,
          created_at |-> files[CacheFile(key)].created_at]
    ELSE NoEntry

(***************************************************************************)
(* shared/cache.py: cache_drive_search.wrapper around get_drive_files.     *)
(***************************************************************************)
\* What the wrapped call meets: create_drive_service raising (creds_fail,
\* outside get_drive_files' try), the search raising (inside it), the list
\* the search returns, and what the tier-2 write does.
Provider(creds_fail, search_raises, found, io) ==
    [creds_fail |-> creds_fail, search_raises |-> search_raises,
     found |-> found, io |-> io]

\* The state after the wrapper and its outcome.  source: where the result
\* came from ("memory", "file", "provider"), or "raised" when the wrapped
\* function raised and the exception left the wrapper.  reads: the tiers
\* whose get the wrapper called, in order.
Outcome(mem, files, result, source, searched, shared, reads) ==
    [mem |-> mem, files |-> files, result |-> result, source |-> source,
     searched |-> searched, shared |-> shared, reads |-> reads]

\* "Cache the result": both tiers are written whatever the result is
CacheResult(mem, files, key, result, t, io) ==
    [mem |-> SimpleCacheSet(mem, key, result, MemoryTtl, t, t),
     files |-> FileCacheSet(files, key, result, FileTtl, t, t, io)]

\* Mutant: a tier-2 hit is returned without being written into tier-1
Promote_Skip(mem, cache_key, cached_result, t) == mem

\* "Promote to memory cache": memory_cache.set(cache_key, cached_result, 300)
Promote(mem, cache_key, cached_result, t) ==
    SimpleCacheSet(mem, cache_key, cached_result, MemoryTtl, t, t)

wrapper(mem, files, folder_id, required_files, t, p) ==
    LET cache_key == get_drive_files_cache_key(folder_id, required_files)
        g1 == SimpleCacheGet(mem, cache_key, t)
        g2 == FileCacheGet(files, cache_key, t)
        result == get_drive_files(required_files, p.found, p.search_raises)
        c == CacheResult(g1.cache, g2.files, cache_key, result, t, p.io)
    IN  IF g1.result # NoneVal
        THEN Outcome(g1.cache, files, g1.result, "memory", FALSE, {}, <<"memory">>)
        ELSE IF g2.result.kind = "raised"
        THEN Outcome(g1.cache, g2.files, NoneVal, "raised", FALSE, {},
                     <<"memory", "file">>)
        ELSE IF g2.result # NoneVal
        THEN \* promote to memory cache
             Outcome(Promote(g1.cache, cache_key, g2.result, t),
                     g2.files, g2.result, "file", FALSE, {}, <<"memory", "file">>)
        ELSE IF p.creds_fail
        THEN Outcome(g1.cache, g2.files, NoneVal, "raised", FALSE, {},
                     <<"memory", "file">>)
        ELSE Outcome(c.mem, c.files, result, "provider", TRUE,
                     SharedFiles(p.found, p.search_raises), <<"memory", "file">>)

Folders == {"F1", "F2"}

\* The required_files lists of the resolve calls
ResolveLists == {<<>>, <<NameA>>, <<NameA, NameA>>}

\* The answers of the provider search in the resolve calls
ResolverFound == {<<>>, <<DriveFile("f1", NameA)>>}

Providers ==
    {Provider(FALSE, FALSE, found, io) : found \in ResolverFound, io \in FileWrites}
    \cup {Provider(FALSE, TRUE, <<>>, io) : io \in FileWrites}
    \cup {Provider(TRUE, FALSE, <<>>, "written")}

NoOp == [op |-> "none"]

InitCache ==
    /\ now = 0
    /\ hash_seed = "seed1"
    /\ memory_cache = EmptyDict
    /\ cache_files = EmptyDict
    /\ driven = "both"
    /\ set_info = EmptyDict
    /\ ops = 0
    /\ prev_op = NoOp
    /\ last_op = NoOp

\* One call of file_service.get_drive_files(required_files, share_email),
\* its inputs drawn from the given sets
ResolveCall(folders, lists, providers) ==
    /\ \E folder_id \in folders, required_files \in lists, p \in providers :
         LET o == wrapper(memory_cache, cache_files, folder_id, required_files, now, p)
         IN  /\ memory_cache' = o.mem
             /\ cache_files' = o.files
             /\ last_op' = [op |-> "resolve", folder_id |-> folder_id,
                            required_files |-> required_files,
                            key |-> get_drive_files_cache_key(folder_id, required_files),
                            at |-> now, source |-> o.source, searched |-> o.searched,
                            search_raised |-> o.searched /\ p.search_raises,
                            shared |-> o.shared, result |-> o.result,
                            reads |-> o.reads,
                            tier1 |-> MemEntry(memory_cache,
                                       get_drive_files_cache_key(folder_id, required_files)),
                            tier2 |-> FileEntry(cache_files,
                                       get_drive_files_cache_key(folder_id, required_files)),
                            stored |-> o.searched /\ p.io = "written"]
    /\ prev_op' = last_op
    /\ UNCHANGED <<now, hash_seed, driven, set_info>>
    /\ UNCHANGED <<pipeVars, orderVars, retryVars, threadVars, svcVars>>

Resolve ==
    /\ ops < MaxResolves
    /\ ResolveCall(Folders, ResolveLists, Providers)
    /\ ops' = ops + 1

\* The seeds hash() of str can run with: Python draws one per process
\* unless PYTHONHASHSEED fixes it
HashSeeds == {"seed1", "seed2"}

\* The process is restarted: memory_cache is a new, empty SimpleCache, the
\* files of cache_dir stay
Restart ==
    /\ last_op.op = "resolve"
    /\ ops < MaxResolves
    /\ memory_cache' = EmptyDict
    /\ hash_seed' \in HashSeeds
    /\ last_op' = [op |-> "restart", before |-> last_op]
    /\ prev_op' = last_op
    /\ UNCHANGED <<now, cache_files, driven, set_info, ops>>
    /\ UNCHANGED <<pipeVars, orderVars, retryVars, threadVars, svcVars>>

\* memory_cache.delete(key), for the key of the last resolve
Delete ==
    /\ last_op.op = "resolve"
    /\ ops < MaxResolves
    /\ LET key == last_op.key
       IN  /\ memory_cache' = IF key \in DOMAIN memory_cache
                              THEN Remove(memory_cache, key) ELSE memory_cache
           /\ last_op' = [op |-> "delete", key |-> key,
                          found |-> key \in DOMAIN memory_cache,
                          before |-> last_op]
    /\ prev_op' = last_op
    /\ UNCHANGED <<now, hash_seed, cache_files, driven, set_info, ops>>
    /\ UNCHANGED <<pipeVars, orderVars, retryVars, threadVars, svcVars>>

\* POST /files/cache/clear: memory_cache.clear(), then shutil.rmtree of the
\* cache directory, which removes every file or raises (answer 500) with
\* the files it did not reach still there
RmtreeOutcomes(files) == {EmptyDict, files}

ClearCache ==
    /\ last_op.op = "resolve"
    /\ ops < MaxResolves
    /\ memory_cache' = EmptyDict
    /\ \E left \in RmtreeOutcomes(cache_files) :
         /\ cache_files' = left
         /\ last_op' = [op |-> "clear", success |-> left = EmptyDict,
                        before |-> last_op]
    /\ prev_op' = last_op
    /\ UNCHANGED <<now, hash_seed, driven, set_info, ops>>
    /\ UNCHANGED <<pipeVars, orderVars, retryVars, threadVars, svcVars>>

\* Time passes between two calls: from one resolve to the next
ResolverSteps == {MemoryTtl, FileTtl - MemoryTtl}

ResolverTick ==
    /\ ops > 0
    /\ ops < MaxResolves
    /\ \E d \in ResolverSteps :
         /\ now + d <= FileTtl + MemoryTtl
         /\ now' = now + d
    /\ UNCHANGED <<hash_seed, memory_cache, cache_files, driven, set_info,
                   ops, prev_op, last_op>>
    /\ UNCHANGED <<pipeVars, orderVars, retryVars, threadVars, svcVars>>

\* The lists a key is computed for: names in any order, repeats included
KeyLists == ListsOver({NameA, NameB, NameAUp}, MaxKeyLen)

\* The permutations of 1..n and a list rearranged by one
Perms(n) == {f \in [1..n -> 1..n] : \A i, j \in 1..n : i # j => f[i] # f[j]}

Permuted(l, f) == [i \in 1..Len(l) |-> l[f[i]]]

\* get_drive_files_cache_key called for a list, for a rearrangement of it,
\* and for the list under another folder id
ComputeKey ==
    /\ last_op = NoOp
    /\ \E folder_id \in Folders, other_folder \in Folders, required_files \in KeyLists :
         \E f \in Perms(Len(required_files)) :
            last_op' = [op |-> "key", folder_id |-> folder_id,
                        other_folder |-> other_folder,
                        required_files |-> required_files,
                        permuted |-> Permuted(required_files, f),
                        key |-> get_drive_files_cache_key(folder_id, required_files),
                        key_permuted |-> get_drive_files_cache_key(folder_id,
                                             Permuted(required_files, f)),
                        key_other |-> get_drive_files_cache_key(other_folder,
                                             required_files)]
    /\ UNCHANGED <<now, hash_seed, memory_cache, cache_files, driven, set_info,
                   ops, prev_op>>
    /\ UNCHANGED <<pipeVars, orderVars, retryVars, threadVars, svcVars>>

NextKey ==
    \/ ComputeKey

\* Repeated lookups of one request: resolve calls of one list on one folder
LookupProviders ==
    {Provider(FALSE, FALSE, <<DriveFile("f1", NameA)>>, io) : io \in FileWrites}
    \cup {Provider(FALSE, TRUE, <<>>, "written")}
    \* "name contains 'a'" also finds "xa.pdf"
    \cup {Provider(FALSE, FALSE,
                   <<DriveFile("f1", NameA), DriveFile("f4", <<"x", "a", ".pdf">>)>>,
                   "written")}

Lookup ==
    /\ ResolveCall({"F1"}, {<<NameA>>}, LookupProviders)
    /\ UNCHANGED ops

\* Time passes between two lookups
LookupTick ==
    /\ \E d \in ResolverSteps :
         /\ now + d <= FileTtl + MemoryTtl
         /\ now' = now + d
    /\ UNCHANGED <<hash_seed, memory_cache, cache_files, driven, set_info,
                   ops, prev_op, last_op>>
    /\ UNCHANGED <<pipeVars, orderVars, retryVars, threadVars, svcVars>>

NextLookup ==
    \/ Lookup
    \/ LookupTick

NextResolver ==
    \/ Resolve
    \/ ResolverTick
    \/ Restart
    \/ Delete
    \/ ClearCache

(***************************************************************************)
(* Direct use of one cache object: SimpleCache or FileCache.  The two      *)
(* objects share no state, so a behaviour drives one of them.              *)
(***************************************************************************)
\* The keys and values of the direct operations: keys and results of the
\* file service
CacheKeys == {get_drive_files_cache_key("F1", <<NameA>>),
              get_drive_files_cache_key("F2", <<NameA>>)}

CacheValues == {get_drive_files(<<NameA>>, <<DriveFile("f1", NameA)>>, FALSE)}

Ttls == 0..MaxTtl

NoSet == [ttl |-> 0, t_set |-> 0, value |-> NoneVal]

GetOp(tier, key, at, before, info, result) ==
    [op |-> "get", tier |-> tier, key |-> key, at |-> at, before |-> before,
     ttl |-> info.ttl, t_set |-> info.t_set, value |-> info.value,
     result |-> result]

SetOp(tier, key, ttl, at, stored) ==
    [op |-> "set", tier |-> tier, key |-> key, at |-> at, ttl |-> ttl,
     stored |-> stored]

InfoOf(key) == IF key \in DOMAIN set_info THEN set_info[key] ELSE NoSet

\* memory_cache.set(key, value, ttl); the clock advances by d between the
\* two time.time() reads of set
MemSet ==
    /\ driven = "memory"
    /\ \E key \in CacheKeys, value \in CacheValues, ttl \in Ttls, d \in {0, 1} :
         /\ now + d <= MaxTime
         /\ memory_cache' = SimpleCacheSet(memory_cache, key, value, ttl, now, now + d)
         /\ now' = now + d
         /\ set_info' = Put(set_info, key,
                            [ttl |-> ttl, t_set |-> now, value |-> value])
         /\ last_op' = SetOp("memory", key, ttl, now, TRUE)
    /\ UNCHANGED <<hash_seed, cache_files, driven, ops, prev_op>>
    /\ UNCHANGED <<pipeVars, orderVars, retryVars, threadVars, svcVars>>

\* memory_cache.get(key)
MemGet ==
    /\ driven = "memory"
    /\ \E key \in CacheKeys :
         LET g == SimpleCacheGet(memory_cache, key, now)
         IN  /\ memory_cache' = g.cache
             /\ set_info' = IF key \in DOMAIN g.cache THEN set_info
                            ELSE Remove(set_info, key)
             /\ last_op' = GetOp("memory", key, now, MemEntry(memory_cache, key),
                                 InfoOf(key), g.result)
    /\ UNCHANGED <<now, hash_seed, cache_files, driven, ops, prev_op>>
    /\ UNCHANGED <<pipeVars, orderVars, retryVars, threadVars, svcVars>>

\* GET /files/cache/stats: memory_cache.stats()
MemStats ==
    /\ driven = "memory"
    /\ LET st == SimpleCacheStats(memory_cache, now)
       IN  /\ memory_cache' = st.cache
           /\ last_op' = [op |-> "stats", at |-> now, before |-> memory_cache,
                          result |-> st.result]
    /\ UNCHANGED <<now, hash_seed, cache_files, driven, set_info, ops, prev_op>>
    /\ UNCHANGED <<pipeVars, orderVars, retryVars, threadVars, svcVars>>

\* file_cache.set(key, value, ttl)
FileSet ==
    /\ driven = "file"
    /\ \E key \in CacheKeys, value \in CacheValues, ttl \in Ttls, d \in {0, 1},
          io \in FileWrites :
         /\ now + d <= MaxTime
         /\ cache_files' = FileCacheSet(cache_files, key, value, ttl, now, now + d, io)
         /\ now' = now + d
         /\ set_info' = IF io = "written"
                        THEN Put(set_info, key,
                                 [ttl |-> ttl, t_set |-> now, value |-> value])
                        ELSE IF io = "write_failed" THEN Remove(set_info, key)
                        ELSE set_info
         /\ last_op' = SetOp("file", key, ttl, now, io = "written")
    /\ UNCHANGED <<hash_seed, memory_cache, driven, ops, prev_op>>
    /\ UNCHANGED <<pipeVars, orderVars, retryVars, threadVars, svcVars>>

\* file_cache.get(key)
FileGet ==
    /\ driven = "file"
    /\ \E key \in CacheKeys :
         LET g == FileCacheGet(cache_files, key, now)
         IN  /\ cache_files' = g.files
             /\ set_info' = IF CacheFile(key) \in DOMAIN g.files THEN set_info
                            ELSE Remove(set_info, key)
             /\ last_op' = GetOp("file", key, now, FileEntry(cache_files, key),
                                 InfoOf(key), g.result)
    /\ UNCHANGED <<now, hash_seed, memory_cache, driven, ops, prev_op>>
    /\ UNCHANGED <<pipeVars, orderVars, retryVars, threadVars, svcVars>>

\* The content of a cache file after it was damaged
Corrupted(content, kind) ==
    [kind |-> kind, value |-> NoneVal,
     expires_at |-> IF kind = "no_value" THEN content.expires_at ELSE 0,
     created_at |-> 0, key |-> NoneVal]

\* Something outside the service damages or replaces a cache file
CorruptFile ==
    /\ driven = "file"
    /\ \E key \in CacheKeys, kind \in CorruptKinds :
         /\ CacheFile(key) \in DOMAIN cache_files
         /\ cache_files[CacheFile(key)].kind = "json"
         /\ cache_files' = Put(cache_files, CacheFile(key),
                               Corrupted(cache_files[CacheFile(key)], kind))
         /\ set_info' = Remove(set_info, key)
         /\ last_op' = [op |-> "corrupt", key |-> key, kind |-> kind]
    /\ UNCHANGED <<now, hash_seed, memory_cache, driven, ops, prev_op>>
    /\ UNCHANGED <<pipeVars, orderVars, retryVars, threadVars, svcVars>>

\* Time passes between two operations
CacheTick ==
    /\ now < MaxTime
    /\ now' = now + 1
    /\ UNCHANGED <<hash_seed, memory_cache, cache_files, driven, set_info,
                   ops, prev_op, last_op>>
    /\ UNCHANGED <<pipeVars, orderVars, retryVars, threadVars, svcVars>>

NextCache ==
    \/ MemSet
    \/ MemGet
    \/ MemStats
    \/ FileSet
    \/ FileGet
    \/ CacheTick

NextCorrupt ==
    \/ FileSet
    \/ FileGet
    \/ CacheTick
    \/ CorruptFile

(***************************************************************************)
(* Threads calling one SimpleCache.  Every method body is inside "with     *)
(* self._lock:", except the time.time() read that opens cleanup_expired.   *)
(* A thread runs one operation, one statement at a time.                   *)
(***************************************************************************)
Threads == {"t1", "t2"}

\* The key and the value the threads use
ThreadKey == get_drive_files_cache_key("F1", <<NameA>>)
ThreadValue == get_drive_files(<<NameA>>, <<DriveFile("f1", NameA)>>, FALSE)
OldValue == get_drive_files(<<NameA>>, <<>>, FALSE)

\* A thread about to run op; cleanup_expired reads the clock before it
\* takes the lock
Thread(op, ttl) ==
    [op |-> op, key |-> ThreadKey, ttl |-> ttl,
     pc |-> IF op = "cleanup_expired" THEN "time" ELSE "acquire",
     entry |-> NoEntry, current_time |-> 0, expired_keys |-> {},
     result |-> NoneVal, removed |-> {}]

MemoryOps ==
    {Thread(op, 0) : op \in {"get", "delete", "clear", "cleanup_expired"}}
    \cup {Thread("set", ttl) : ttl \in Ttls}

\* The cache the threads start on: empty, or holding the key from a set at
\* time 0
InitialCaches ==
    {EmptyDict}
    \cup {SimpleCacheSet(EmptyDict, ThreadKey, OldValue, ttl, 0, 0) : ttl \in Ttls}

InitThreads ==
    /\ now = 0
    /\ hash_seed = "seed1"
    /\ memory_cache \in InitialCaches
    /\ cache_files = EmptyDict
    /\ driven = "memory"
    /\ set_info = EmptyDict
    /\ ops = 0
    /\ prev_op = NoOp
    /\ last_op = NoOp
    /\ lock = "free"
    /\ th \in [Threads -> MemoryOps]

\* Thread t moves to pc, its locals changed as given
Goto(t, pc_, changes) == th' = [th EXCEPT ![t] = [changes EXCEPT !.pc = pc_]]

\* Mutant: the method bodies run without taking the lock
CanAcquire_NoLock(l) == TRUE

\* "with self._lock:" blocks until the lock is free
CanAcquire(l) == l = "free"

\* An entry a thread deleted, and when
Removal(key, entry, at) == [key |-> key, entry |-> entry, at |-> at]

\* current_time = time.time() of cleanup_expired
ReadTime ==
    /\ \E t \in Threads :
         /\ th[t].pc = "time"
         /\ Goto(t, "acquire", [th[t] EXCEPT !.current_time = now])
    /\ UNCHANGED <<lock, cacheVars>>
    /\ UNCHANGED <<pipeVars, orderVars, retryVars, svcVars>>

\* with self._lock: (entering)
Acquire ==
    /\ \E t \in Threads :
         /\ th[t].pc = "acquire"
         /\ CanAcquire(lock)
         /\ lock' = t
         /\ Goto(t, th[t].op, th[t])
    /\ UNCHANGED cacheVars
    /\ UNCHANGED <<pipeVars, orderVars, retryVars, svcVars>>

\* get: "if key not in self.cache: return None"; "entry = self.cache[key]"
GetLookup ==
    /\ \E t \in Threads :
         /\ th[t].pc = "get"
         /\ IF th[t].key \notin DOMAIN memory_cache
            THEN Goto(t, "release", [th[t] EXCEPT !.result = NoneVal])
            ELSE Goto(t, "check", [th[t] EXCEPT !.entry = memory_cache[th[t].key]])
    /\ UNCHANGED <<lock, cacheVars>>
    /\ UNCHANGED <<pipeVars, orderVars, retryVars, svcVars>>

\* get: "if time.time() > entry['expires_at']", else "return entry['value']"
GetCheck ==
    /\ \E t \in Threads :
         /\ th[t].pc = "check"
         /\ IF Expired(now, th[t].entry.expires_at)
            THEN Goto(t, "del", th[t])
            ELSE Goto(t, "release", [th[t] EXCEPT !.result = th[t].entry.value])
    /\ UNCHANGED <<lock, cacheVars>>
    /\ UNCHANGED <<pipeVars, orderVars, retryVars, svcVars>>

\* get: "del self.cache[key]; return None" (KeyError when the key is gone)
GetDelete ==
    /\ \E t \in Threads :
         /\ th[t].pc = "del"
         /\ IF th[t].key \in DOMAIN memory_cache
            THEN /\ memory_cache' = Remove(memory_cache, th[t].key)
                 /\ Goto(t, "release",
                         [th[t] EXCEPT !.result = NoneVal,
                                       !.removed = {Removal(th[t].key,
                                                     memory_cache[th[t].key], now)}])
            ELSE /\ UNCHANGED memory_cache
                 /\ Goto(t, "release", [th[t] EXCEPT !.result = Raised("KeyError")])
    /\ UNCHANGED <<lock, now, hash_seed, cache_files, driven, set_info, ops,
                   prev_op, last_op>>
    /\ UNCHANGED <<pipeVars, orderVars, retryVars, svcVars>>

\* set: "self.cache[key] = {...}"
SetWrite ==
    /\ \E t \in Threads :
         /\ th[t].pc = "set"
         /\ memory_cache' = SimpleCacheSet(memory_cache, th[t].key, ThreadValue,
                                           th[t].ttl, now, now)
         /\ Goto(t, "release", [th[t] EXCEPT !.entry = memory_cache'[th[t].key]])
    /\ UNCHANGED <<lock, now, hash_seed, cache_files, driven, set_info, ops,
                   prev_op, last_op>>
    /\ UNCHANGED <<pipeVars, orderVars, retryVars, svcVars>>

\* delete: "if key in self.cache: del self.cache[key]; return True" else False
DeleteKey ==
    /\ \E t \in Threads :
         /\ th[t].pc = "delete"
         /\ IF th[t].key \in DOMAIN memory_cache
            THEN /\ memory_cache' = Remove(memory_cache, th[t].key)
                 /\ Goto(t, "release",
                         [th[t] EXCEPT !.result = TRUE,
                                       !.removed = {Removal(th[t].key,
                                                     memory_cache[th[t].key], now)}])
            ELSE /\ UNCHANGED memory_cache
                 /\ Goto(t, "release", [th[t] EXCEPT !.result = FALSE])
    /\ UNCHANGED <<lock, now, hash_seed, cache_files, driven, set_info, ops,
                   prev_op, last_op>>
    /\ UNCHANGED <<pipeVars, orderVars, retryVars, svcVars>>

\* clear: "self.cache.clear()"
ClearAll ==
    /\ \E t \in Threads :
         /\ th[t].pc = "clear"
         /\ memory_cache' = EmptyDict
         /\ Goto(t, "release",
                 [th[t] EXCEPT !.removed = {Removal(k, memory_cache[k], now) :
                                             k \in DOMAIN memory_cache}])
    /\ UNCHANGED <<lock, now, hash_seed, cache_files, driven, set_info, ops,
                   prev_op, last_op>>
    /\ UNCHANGED <<pipeVars, orderVars, retryVars, svcVars>>

\* cleanup_expired: the loop collecting expired_keys
CleanupCollect ==
    /\ \E t \in Threads :
         /\ th[t].pc = "cleanup_expired"
         /\ Goto(t, "cleanup_delete",
                 [th[t] EXCEPT !.expired_keys =
                     {k \in DOMAIN memory_cache :
                        Expired(th[t].current_time, memory_cache[k].expires_at)}])
    /\ UNCHANGED <<lock, cacheVars>>
    /\ UNCHANGED <<pipeVars, orderVars, retryVars, svcVars>>

\* cleanup_expired: "for key in expired_keys: del self.cache[key]"
CleanupDelete ==
    /\ \E t \in Threads :
         /\ th[t].pc = "cleanup_delete"
         /\ IF th[t].expired_keys \subseteq DOMAIN memory_cache
            THEN /\ memory_cache' = [k \in DOMAIN memory_cache \ th[t].expired_keys
                                       |-> memory_cache[k]]
                 /\ Goto(t, "release",
                         [th[t] EXCEPT !.result = Cardinality(th[t].expired_keys),
                                       !.removed = {Removal(k, memory_cache[k], now) :
                                                     k \in th[t].expired_keys}])
            ELSE /\ UNCHANGED memory_cache
                 /\ Goto(t, "release", [th[t] EXCEPT !.result = Raised("KeyError")])
    /\ UNCHANGED <<lock, now, hash_seed, cache_files, driven, set_info, ops,
                   prev_op, last_op>>
    /\ UNCHANGED <<pipeVars, orderVars, retryVars, svcVars>>

\* Leaving the with block releases the lock
Release ==
    /\ \E t \in Threads :
         /\ th[t].pc = "release"
         /\ lock' = "free"
         /\ Goto(t, "done", th[t])
    /\ UNCHANGED cacheVars
    /\ UNCHANGED <<pipeVars, orderVars, retryVars, svcVars>>

\* Time passes while the threads run
ThreadTick ==
    /\ now < MaxTime
    /\ now' = now + 1
    /\ UNCHANGED <<hash_seed, memory_cache, cache_files, driven, set_info,
                   ops, prev_op, last_op>>
    /\ UNCHANGED <<pipeVars, orderVars, retryVars, threadVars, svcVars>>

NextThreads ==
    \/ ReadTime
    \/ Acquire
    \/ GetLookup
    \/ GetCheck
    \/ GetDelete
    \/ SetWrite
    \/ DeleteKey
    \/ ClearAll
    \/ CleanupCollect
    \/ CleanupDelete
    \/ Release
    \/ ThreadTick

(***************************************************************************)
(* A thread in FileCache.get and a thread in FileCache.set on the same     *)
(* key.  FileCache takes no lock; every file system call is a step.  With  *)
(* one writer, the file of the key is in the directory after the writer's  *)
(* open unless the reader unlinked it, and a write to an unlinked file is  *)
(* lost.                                                                   *)
(***************************************************************************)
FileThread(op, ttl) ==
    [op |-> op, key |-> ThreadKey, ttl |-> ttl,
     pc |-> IF op = "fget" THEN "exists" ELSE "entry",
     entry |-> NoEntry, current_time |-> 0, expired_keys |-> {},
     result |-> NoneVal, removed |-> {}]

\* The directory the threads start on: empty, or holding the key's file
\* from a set at time 0
InitialDirs ==
    {EmptyDict}
    \cup {FileCacheSet(EmptyDict, ThreadKey, OldValue, ttl, 0, 0, "written") :
             ttl \in Ttls}

InitFileRace ==
    /\ now = 0
    /\ hash_seed = "seed1"
    /\ memory_cache = EmptyDict
    /\ cache_files \in InitialDirs
    /\ driven = "file"
    /\ set_info = EmptyDict
    /\ ops = 0
    /\ prev_op = NoOp
    /\ last_op = NoOp
    /\ lock = "free"
    /\ \E ttl \in Ttls :
         th = ("t1" :> FileThread("fget", 0)) @@ ("t2" :> FileThread("fset", ttl))

\* get: "if not cache_file.exists(): return None"
FGetExists ==
    /\ \E t \in Threads :
         /\ th[t].pc = "exists"
         /\ IF CacheFile(th[t].key) \in DOMAIN cache_files
            THEN Goto(t, "load", th[t])
            ELSE Goto(t, "done", [th[t] EXCEPT !.result = NoneVal])
    /\ UNCHANGED <<lock, cacheVars>>
    /\ UNCHANGED <<pipeVars, orderVars, retryVars, svcVars>>

\* get: "with open(cache_file, 'r') as f: entry = json.load(f)"
FGetLoad ==
    /\ \E t \in Threads :
         /\ th[t].pc = "load"
         /\ IF CacheFile(th[t].key) \notin DOMAIN cache_files
            THEN Goto(t, "handler", th[t])       \* FileNotFoundError
            ELSE IF cache_files[CacheFile(th[t].key)].kind # "json"
            THEN Goto(t, "handler", th[t])       \* json.JSONDecodeError
            ELSE Goto(t, "fcheck",
                      [th[t] EXCEPT !.entry = cache_files[CacheFile(th[t].key)]])
    /\ UNCHANGED <<lock, cacheVars>>
    /\ UNCHANGED <<pipeVars, orderVars, retryVars, svcVars>>

\* get: "if time.time() > entry['expires_at']", else "return entry['value']"
FGetCheck ==
    /\ \E t \in Threads :
         /\ th[t].pc = "fcheck"
         /\ IF Expired(now, th[t].entry.expires_at)
            THEN Goto(t, "unlink", th[t])
            ELSE Goto(t, "done", [th[t] EXCEPT !.result = th[t].entry.value])
    /\ UNCHANGED <<lock, cacheVars>>
    /\ UNCHANGED <<pipeVars, orderVars, retryVars, svcVars>>

\* get: "cache_file.unlink(); return None" of the expired branch
FGetUnlink ==
    /\ \E t \in Threads :
         /\ th[t].pc = "unlink"
         /\ IF CacheFile(th[t].key) \in DOMAIN cache_files
            THEN /\ cache_files' = Remove(cache_files, CacheFile(th[t].key))
                 /\ Goto(t, "done",
                         [th[t] EXCEPT !.result = NoneVal,
                                       !.removed = {Removal(th[t].key,
                                            cache_files[CacheFile(th[t].key)], now)}])
            ELSE /\ UNCHANGED cache_files   \* FileNotFoundError
                 /\ Goto(t, "handler", th[t])
    /\ UNCHANGED <<lock, now, hash_seed, memory_cache, driven, set_info, ops,
                   prev_op, last_op>>
    /\ UNCHANGED <<pipeVars, orderVars, retryVars, svcVars>>

\* get: the except clause: "if cache_file.exists(): cache_file.unlink()",
\* "return None"
FGetHandler ==
    /\ \E t \in Threads :
         /\ th[t].pc = "handler"
         /\ IF CacheFile(th[t].key) \in DOMAIN cache_files
            THEN /\ cache_files' = Remove(cache_files, CacheFile(th[t].key))
                 /\ Goto(t, "done",
                         [th[t] EXCEPT !.result = NoneVal,
                                       !.removed = {Removal(th[t].key,
                                            cache_files[CacheFile(th[t].key)], now)}])
            ELSE /\ UNCHANGED cache_files
                 /\ Goto(t, "done", [th[t] EXCEPT !.result = NoneVal])
    /\ UNCHANGED <<lock, now, hash_seed, memory_cache, driven, set_info, ops,
                   prev_op, last_op>>
    /\ UNCHANGED <<pipeVars, orderVars, retryVars, svcVars>>

\* set: "entry = {...}" with its time.time() reads
FSetEntry ==
    /\ \E t \in Threads :
         /\ th[t].pc = "entry"
         /\ Goto(t, "open",
                 [th[t] EXCEPT !.entry =
                     FileCacheSet(EmptyDict, th[t].key, ThreadValue, th[t].ttl,
                                  now, now, "written")[CacheFile(th[t].key)]])
    /\ UNCHANGED <<lock, cacheVars>>
    /\ UNCHANGED <<pipeVars, orderVars, retryVars, svcVars>>

\* set: "open(cache_file, 'w')" creates the file or truncates it
FSetOpen ==
    /\ \E t \in Threads :
         /\ th[t].pc = "open"
         /\ cache_files' = Put(cache_files, CacheFile(th[t].key), Truncated)
         /\ Goto(t, "dump", th[t])
    /\ UNCHANGED <<lock, now, hash_seed, memory_cache, driven, set_info, ops,
                   prev_op, last_op>>
    /\ UNCHANGED <<pipeVars, orderVars, retryVars, svcVars>>

\* set: "json.dump(entry, f)" and the close of the file
FSetDump ==
    /\ \E t \in Threads :
         /\ th[t].pc = "dump"
         /\ cache_files' = IF CacheFile(th[t].key) \in DOMAIN cache_files
                           THEN Put(cache_files, CacheFile(th[t].key), th[t].entry)
                           ELSE cache_files
         /\ Goto(t, "done", th[t])
    /\ UNCHANGED <<lock, now, hash_seed, memory_cache, driven, set_info, ops,
                   prev_op, last_op>>
    /\ UNCHANGED <<pipeVars, orderVars, retryVars, svcVars>>

NextFileRace ==
    \/ FGetExists
    \/ FGetLoad
    \/ FGetCheck
    \/ FGetUnlink
    \/ FGetHandler
    \/ FSetEntry
    \/ FSetOpen
    \/ FSetDump
    \/ ThreadTick

(***************************************************************************)
(* Request handlers of the file service running at once: threads inside    *)
(* cache_drive_search.wrapper (POST /files/check) and inside clear_cache   *)
(* (POST /files/cache/clear).  The wrapper holds no lock across its        *)
(* statements; each cache method and the provider search is one step.      *)
(* th[t].pc is the statement thread t executes next.                       *)
(***************************************************************************)
HandlerFolder == "F1"
HandlerFiles == <<NameA>>
HandlerKey == get_drive_files_cache_key(HandlerFolder, HandlerFiles)

\* The result cached earlier: the folder did not hold the file yet
EarlierResult == get_drive_files(HandlerFiles, <<>>, FALSE)

\* What the provider holds while the handlers run
HandlerFound == <<DriveFile("f1", NameA)>>

ResolveHandler ==
    [job |-> "resolve", pc |-> "memory_get", cached_result |-> NoneVal,
     result |-> NoneVal, source |-> "none", searched |-> FALSE, shared |-> {}]

ClearHandler ==
    [job |-> "clear", pc |-> "memory_clear", cached_result |-> NoneVal,
     result |-> NoneVal, source |-> "none", searched |-> FALSE, shared |-> {}]

\* The caches the handlers meet: empty, an entry in tier-2 only (tier-1
\* expired or the process restarted), an entry in both tiers
HandlerCaches ==
    LET mem == SimpleCacheSet(EmptyDict, HandlerKey, EarlierResult, MemoryTtl, 0, 0)
        files == FileCacheSet(EmptyDict, HandlerKey, EarlierResult, FileTtl, 0, 0,
                              "written")
    IN  {[mem |-> EmptyDict, files |-> EmptyDict],
         [mem |-> EmptyDict, files |-> files],
         [mem |-> mem, files |-> files]}

InitHandlers ==
    /\ now = 1
    /\ hash_seed = "seed1"
    /\ \E c \in HandlerCaches : memory_cache = c.mem /\ cache_files = c.files
    /\ driven = "memory"
    /\ set_info = EmptyDict
    /\ ops = 0
    /\ prev_op = NoOp
    /\ last_op = NoOp
    /\ lock = "free"
    /\ th \in [Threads -> {ResolveHandler, ClearHandler}]

\* wrapper: "cached_result = memory_cache.get(cache_key)" and the return
WrapperMemoryGet ==
    /\ \E t \in Threads :
         /\ th[t].pc = "memory_get"
         /\ LET g == SimpleCacheGet(memory_cache, HandlerKey, now)
            IN  /\ memory_cache' = g.cache
                /\ IF g.result # NoneVal
                   THEN Goto(t, "done", [th[t] EXCEPT !.result = g.result,
                                                      !.source = "memory"])
                   ELSE Goto(t, "file_get", th[t])
    /\ UNCHANGED <<now, hash_seed, cache_files, driven, set_info, ops, prev_op,
                   last_op, lock>>
    /\ UNCHANGED <<pipeVars, orderVars, retryVars, svcVars>>

\* wrapper: "cached_result = file_cache.get(cache_key)"
WrapperFileGet ==
    /\ \E t \in Threads :
         /\ th[t].pc = "file_get"
         /\ LET g == FileCacheGet(cache_files, HandlerKey, now)
            IN  /\ cache_files' = g.files
                /\ IF g.result # NoneVal
                   THEN Goto(t, "promote", [th[t] EXCEPT !.cached_result = g.result])
                   ELSE Goto(t, "search", th[t])
    /\ UNCHANGED <<now, hash_seed, memory_cache, driven, set_info, ops, prev_op,
                   last_op, lock>>
    /\ UNCHANGED <<pipeVars, orderVars, retryVars, svcVars>>

\* wrapper: "memory_cache.set(cache_key, cached_result, 300)" and the return
WrapperPromote ==
    /\ \E t \in Threads :
         /\ th[t].pc = "promote"
         /\ memory_cache' = Promote(memory_cache, HandlerKey, th[t].cached_result, now)
         /\ Goto(t, "done", [th[t] EXCEPT !.result = th[t].cached_result,
                                            !.source = "file"])
    /\ UNCHANGED <<now, hash_seed, cache_files, driven, set_info, ops, prev_op,
                   last_op, lock>>
    /\ UNCHANGED <<pipeVars, orderVars, retryVars, svcVars>>

\* wrapper: "result = func(self, required_files, share_email)"
WrapperSearch ==
    /\ \E t \in Threads :
         /\ th[t].pc = "search"
         /\ Goto(t, "memory_set",
                 [th[t] EXCEPT !.result = get_drive_files(HandlerFiles, HandlerFound,
                                                           FALSE),
                               !.source = "provider",
                               !.searched = TRUE,
                               !.shared = SharedFiles(HandlerFound, FALSE)])
    /\ UNCHANGED <<cacheVars, lock>>
    /\ UNCHANGED <<pipeVars, orderVars, retryVars, svcVars>>

\* wrapper: "memory_cache.set(cache_key, result, 300)"
WrapperMemorySet ==
    /\ \E t \in Threads :
         /\ th[t].pc = "memory_set"
         /\ memory_cache' = SimpleCacheSet(memory_cache, HandlerKey, th[t].result,
                                           MemoryTtl, now, now)
         /\ Goto(t, "file_set", th[t])
    /\ UNCHANGED <<now, hash_seed, cache_files, driven, set_info, ops, prev_op,
                   last_op, lock>>
    /\ UNCHANGED <<pipeVars, orderVars, retryVars, svcVars>>

\* wrapper: "file_cache.set(cache_key, result, 1800)" and the return
WrapperFileSet ==
    /\ \E t \in Threads :
         /\ th[t].pc = "file_set"
         /\ cache_files' = FileCacheSet(cache_files, HandlerKey, th[t].result,
                                        FileTtl, now, now, "written")
         /\ Goto(t, "done", th[t])
    /\ UNCHANGED <<now, hash_seed, memory_cache, driven, set_info, ops, prev_op,
                   last_op, lock>>
    /\ UNCHANGED <<pipeVars, orderVars, retryVars, svcVars>>

\* clear_cache: "memory_cache.clear()"
ClearMemory ==
    /\ \E t \in Threads :
         /\ th[t].pc = "memory_clear"
         /\ memory_cache' = EmptyDict
         /\ Goto(t, "rmtree", th[t])
    /\ UNCHANGED <<now, hash_seed, cache_files, driven, set_info, ops, prev_op,
                   last_op, lock>>
    /\ UNCHANGED <<pipeVars, orderVars, retryVars, svcVars>>

\* clear_cache: "shutil.rmtree(cache_dir)" and "cache_dir.mkdir(exist_ok=True)",
\* taken as one step that removes every cache file, and the return
ClearFiles ==
    /\ \E t \in Threads :
         /\ th[t].pc = "rmtree"
         /\ cache_files' = EmptyDict
         /\ Goto(t, "done", th[t])
    /\ UNCHANGED <<now, hash_seed, memory_cache, driven, set_info, ops, prev_op,
                   last_op, lock>>
    /\ UNCHANGED <<pipeVars, orderVars, retryVars, svcVars>>

\* A second passes while the handlers run
HandlerTick ==
    /\ now < MaxTime
    /\ \E t \in Threads : th[t].pc # "done"
    /\ now' = now + 1
    /\ UNCHANGED <<hash_seed, memory_cache, cache_files, driven, set_info, ops,
                   prev_op, last_op>>
    /\ UNCHANGED <<pipeVars, orderVars, retryVars, threadVars, svcVars>>

NextHandlers ==
    \/ WrapperMemoryGet
    \/ WrapperFileGet
    \/ WrapperPromote
    \/ WrapperSearch
    \/ WrapperMemorySet
    \/ WrapperFileSet
    \/ ClearMemory
    \/ ClearFiles
    \/ HandlerTick

(***************************************************************************)
(* Overlapping runs of OrderOrchestrator.process_orders: POST /process is  *)
(* served by one thread per request.  orders is the platform's list of     *)
(* orders in the pending status; th[r] is the state of run r: the          *)
(* statement it executes next, the order_data and file_data it built, the  *)
(* emails it sent and the order ids it posted for the status update.       *)
(***************************************************************************)
Runs == {"r1", "r2"}

\* The pending orders of the platform: up to two orders of one poster each,
\* paid or not
RunPlatforms ==
    {[i \in 1..Len(l) |-> Order(1000 + i, l[i], <<Product(<<"Plakat">>, <<"a">>, 1)>>)] :
        l \in ListsOver({[payment_done |-> 1], [payment_done |-> 0]}, 2)}

NewRun ==
    [pc |-> "idle",
     order_data |-> [files |-> <<>>, quantities |-> EmptyDict, order_ids |-> <<>>],
     file_data |-> OnSearchError, emails_sent |-> 0, updated |-> <<>>,
     success |-> FALSE,
     \* another run was in progress when this one fetched its orders
     overlaps |-> FALSE]

InitRuns ==
    /\ orders \in RunPlatforms
    /\ os_call = [op |-> "none"]
    /\ fi_call = [op |-> "none"]
    /\ lock = "free"
    /\ th = [r \in Runs |-> NewRun]

\* th[r] := changes, at statement pc_
RunGoto(r, pc_, changes) == th' = [th EXCEPT ![r] = [changes EXCEPT !.pc = pc_]]

\* Mutant: a run starts only while no other run is in progress
MayStart_OneRun(r) == \A o \in Runs \ {r} : th[o].pc \in {"idle", "done"}

\* process_orders is entered: the method and its route take no lock and
\* test no flag
MayStart(r) == TRUE

\* The orders the platform keeps in the pending status after setOrderStatus
\* for order_ids
StillPending(os, order_ids) ==
    SelectSeq(os, LAMBDA order : Str(order.order_id) \notin Range(order_ids))

\* process_orders: the health probes of the three services
StartRun(r) ==
    /\ th[r].pc = "idle"
    /\ MayStart(r)
    /\ \E healthy \in BOOLEAN :
         IF healthy THEN RunGoto(r, "check", th[r]) ELSE RunGoto(r, "done", th[r])
    /\ UNCHANGED <<orders, os_call, fi_call, lock>>
    /\ UNCHANGED <<pipeVars, orderVars, cacheVars, retryVars>>

RunStart == \E r \in Runs : StartRun(r) /\ th'[r].pc \in {"check", "done"}

\* process_orders: "if not self.check_for_new_orders():"
RunCheckOrders ==
    /\ \E r \in Runs :
         /\ th[r].pc = "check"
         /\ IF os_check_for_new_orders(orders)
            THEN RunGoto(r, "details", th[r])
            ELSE RunGoto(r, "done", [th[r] EXCEPT !.success = TRUE])
    /\ UNCHANGED <<orders, os_call, fi_call, lock>>
    /\ UNCHANGED <<pipeVars, orderVars, cacheVars, retryVars>>

\* process_orders: "order_data = self.get_order_details()"
RunGetDetails ==
    /\ \E r \in Runs :
         /\ th[r].pc = "details"
         /\ LET details == os_get_order_details(orders)
                overlaps == \E o \in Runs \ {r} : th[o].pc \notin {"idle", "done"}
            IN  IF details.order_ids = <<>>
                THEN RunGoto(r, "done", [th[r] EXCEPT !.order_data = details,
                                                      !.overlaps = overlaps,
                                                      !.success = TRUE])
                ELSE RunGoto(r, "files", [th[r] EXCEPT !.order_data = details,
                                                       !.overlaps = overlaps])
    /\ UNCHANGED <<orders, os_call, fi_call, lock>>
    /\ UNCHANGED <<pipeVars, orderVars, cacheVars, retryVars>>

\* process_orders: "file_data = self.check_files_availability(order_data.files)"
RunCheckFiles ==
    /\ \E r \in Runs, found \in {<<>>, <<DriveFile("f1", NameA)>>} :
         /\ th[r].pc = "files"
         /\ RunGoto(r, "emails",
                    [th[r] EXCEPT !.file_data =
                        get_drive_files(th[r].order_data.files, found, FALSE)])
    /\ UNCHANGED <<orders, os_call, fi_call, lock>>
    /\ UNCHANGED <<pipeVars, orderVars, cacheVars, retryVars>>

\* process_orders: the print-order email and the missing-files email
RunSendEmails ==
    /\ \E r \in Runs, print_ok \in BOOLEAN, missing_ok \in BOOLEAN :
         LET print_sent == th[r].file_data.available_files # EmptyDict /\ print_ok
             missing_sent == th[r].file_data.missing_files # <<>> /\ missing_ok
         IN  /\ th[r].pc = "emails"
             /\ RunGoto(r, "update",
                        [th[r] EXCEPT !.emails_sent =
                            (IF print_sent THEN 1 ELSE 0)
                            + (IF missing_sent THEN 1 ELSE 0)])
    /\ UNCHANGED <<orders, os_call, fi_call, lock>>
    /\ UNCHANGED <<pipeVars, orderVars, cacheVars, retryVars>>

\* process_orders: "if self.update_order_status(order_data.order_ids):" and
\* the return; the platform moves the orders out of the pending status
\* unless the call fails
RunUpdateStatus ==
    /\ \E r \in Runs, ok \in BOOLEAN :
         /\ th[r].pc = "update"
         /\ orders' = IF ok THEN StillPending(orders, th[r].order_data.order_ids)
                      ELSE orders
         /\ RunGoto(r, "done", [th[r] EXCEPT !.updated = th[r].order_data.order_ids,
                                             !.success = TRUE])
    /\ UNCHANGED <<os_call, fi_call, lock>>
    /\ UNCHANGED <<pipeVars, orderVars, cacheVars, retryVars>>

NextRuns ==
    \/ RunStart
    \/ RunCheckOrders
    \/ RunGetDetails
    \/ RunCheckFiles
    \/ RunSendEmails
    \/ RunUpdateStatus

(***************************************************************************)
(* shared/utils.py: validate_email and retry_on_failure, and the function  *)
(* the email service decorates with it, EmailService.send_email.           *)
(* An address is a sequence of characters: "u" a letter, "@", "." and "!"  *)
(* a character no part of an address admits.                               *)
(***************************************************************************)
LocalChars == {"u", "."}     \* [a-zA-Z0-9._%+-]
DomainChars == {"u", "."}    \* [a-zA-Z0-9.-]
TldChars == {"u"}            \* [a-zA-Z]

\* re.match(r'^[a-zA-Z0-9._%+-]+@[a-zA-Z0-9.-]+\.[a-zA-Z]{2,}$', email)
validate_email(email) ==
    \E i, j \in 1..Len(email) :
        /\ email[i] = "@"
        /\ i >= 2
        /\ \A k \in 1..(i - 1) : email[k] \in LocalChars
        /\ email[j] = "."
        /\ j >= i + 2
        /\ \A k \in (i + 1)..(j - 1) : email[k] \in DomainChars
        /\ Len(email) >= j + 2
        /\ \A k \in (j + 1)..Len(email) : email[k] \in TldChars

\* The addresses, subjects and bodies of the send requests
Emails == { <<"u", "@", "u", ".", "u", "u">>,    \* u@u.uu
            <<"u", "@", "u", ".", "u">>,         \* u@u.u: top level too short
            <<"u", "!", "@", "u", ".", "u", "u">>,
            <<"u", "u">>,
            <<>> }
Subjects == {"", "subject"}
Bodies == {"", "body"}

SendArgs == [to_email : Emails, subject : Subjects, body : Bodies]

\* What the SMTP server does with one send
SmtpOutcomes == {"sent", "auth_error", "recipients_refused", "smtp_error",
                 "connection_error"}

\* One execution of the body of EmailService.send_email
send_email(to_email, subject, body, smtp) ==
    IF ~validate_email(to_email) THEN [kind |-> "raised", value |-> "ValueError"]
    ELSE IF subject = "" \/ body = "" THEN [kind |-> "raised", value |-> "ValueError"]
    ELSE IF smtp = "sent" THEN [kind |-> "returned", value |-> "success"]
    ELSE IF smtp = "connection_error" THEN [kind |-> "raised", value |-> "OSError"]
    ELSE [kind |-> "raised", value |-> "Exception"]

\* The request fails validation
Invalid(args) ==
    ~validate_email(args.to_email) \/ args.subject = "" \/ args.body = ""

\* retry_on_failure(max_retries: int = 3, delay: float = 1.0, backoff: float = 2.0)
DefaultMaxRetries == 3
DefaultDelay == 1
DefaultBackoff == 2

RetryConfig(max_retries, delay, backoff) ==
    [max_retries |-> max_retries, delay |-> delay, backoff |-> backoff]

\* @retry_on_failure(max_retries=3, delay=1.0) of send_email
SendEmailRetry == RetryConfig(DefaultMaxRetries, DefaultDelay, DefaultBackoff)

RetryConfigs ==
    {RetryConfig(m, d, b) : m \in 0..MaxRetries, d \in {DefaultDelay, 3},
                            b \in {1, DefaultBackoff, 3}}
    \cup {SendEmailRetry}

\* Mutant: every wait lasts the initial delay
NextDelay_Constant(delay, backoff) == delay

\* "current_delay *= backoff"
NextDelay(delay, backoff) == delay * backoff

\* Mutant: the loop runs max_retries times
Attempts_NoExtra(max_retries) == max_retries

\* range(max_retries + 1): the number of iterations of the loop
Attempts(max_retries) == max_retries + 1

InitRetry ==
    /\ rt_cfg \in RetryConfigs
    /\ rt_args \in SendArgs
    /\ rt_pc = "call"
    /\ attempt = 0
    /\ current_delay = rt_cfg.delay
    /\ last_exception = "none"
    /\ invocations = <<>>
    /\ sleeps = <<>>

\* "return func(*args, **kwargs)" inside the try, and the except clause up
\* to the break
CallFunc ==
    /\ rt_pc = "call"
    /\ attempt < Attempts(rt_cfg.max_retries)
    /\ \E smtp \in SmtpOutcomes :
         LET r == send_email(rt_args.to_email, rt_args.subject, rt_args.body, smtp)
         IN  /\ invocations' = Append(invocations, r)
             /\ IF r.kind = "returned"
                THEN /\ rt_pc' = "returned"
                     /\ UNCHANGED last_exception
                ELSE /\ last_exception' = r.value
                     /\ rt_pc' = IF attempt = Attempts(rt_cfg.max_retries) - 1
                                 THEN "raise" ELSE "sleep"
    /\ UNCHANGED <<rt_cfg, rt_args, attempt, current_delay, sleeps>>
    /\ UNCHANGED <<pipeVars, orderVars, cacheVars, threadVars, svcVars>>

\* time.sleep(current_delay); current_delay *= backoff; next iteration
SleepAndBackoff ==
    /\ rt_pc = "sleep"
    /\ sleeps' = Append(sleeps, current_delay)
    /\ current_delay' = NextDelay(current_delay, rt_cfg.backoff)
    /\ attempt' = attempt + 1
    /\ rt_pc' = "call"
    /\ UNCHANGED <<rt_cfg, rt_args, last_exception, invocations>>
    /\ UNCHANGED <<pipeVars, orderVars, cacheVars, threadVars, svcVars>>

\* "raise last_exception": what the caller of the wrapper receives is the
\* exception object the last execution raised, with what that object
\* carries and nothing added
Propagated(exc) == [exception |-> exc]

\* "raise last_exception" after the loop
RaiseLast ==
    /\ rt_pc = "raise"
    /\ rt_pc' = "raised"
    /\ UNCHANGED <<rt_cfg, rt_args, attempt, current_delay, last_exception,
                   invocations, sleeps>>
    /\ UNCHANGED <<pipeVars, orderVars, cacheVars, threadVars, svcVars>>

NextRetry ==
    \/ CallFunc
    \/ SleepAndBackoff
    \/ RaiseLast

(***************************************************************************)
(* Specifications.                                                         *)
(***************************************************************************)
IdlePipe ==
    /\ pc = "idle"
    /\ health_idx = 1
    /\ calls = <<>>
    /\ order_data = OrderData(<<>>, <<>>, EmptyDict)
    /\ file_data = FileData(EmptyDict, <<>>, 0)
    /\ emails_sent = 0
    /\ ret = Return(FALSE, "nothing", "", NoResults)

IdleOrders ==
    /\ us_pc = "idle"
    /\ us_ids = <<>>
    /\ us_i = 1
    /\ us_posts = <<>>
    /\ us_failed = {}
    /\ us_ret = "none"

IdleRetry ==
    /\ rt_cfg = [max_retries |-> 0, delay |-> 0, backoff |-> 0]
    /\ rt_args = [to_email |-> <<>>, subject |-> "", body |-> ""]
    /\ rt_pc = "idle"
    /\ attempt = 0
    /\ current_delay = 0
    /\ last_exception = "none"
    /\ invocations = <<>>
    /\ sleeps = <<>>

IdleThreads ==
    /\ lock = "free"
    /\ th = EmptyDict

IdleSvc ==
    /\ orders = <<>>
    /\ os_call = [op |-> "none"]
    /\ fi_call = [op |-> "none"]

\* One run of process_orders
Init == InitPipe /\ IdleOrders /\ InitCache /\ IdleRetry /\ IdleSvc /\ IdleThreads
Next == NextPipe
Spec == Init /\ [][Next]_vars

\* One run of process_orders against collaborators answering anything
InitAnyBodySpec == InitPipe /\ IdleOrders /\ InitCache /\ IdleRetry /\ IdleSvc /\ IdleThreads
SpecAnyBody == InitAnyBodySpec /\ [][NextAnyBody]_vars

\* One call of OrderService.update_order_status
InitOrdersSpec == IdlePipe /\ InitOrders /\ InitCache /\ IdleRetry /\ IdleSvc /\ IdleThreads
SpecOrders == InitOrdersSpec /\ [][NextOrders]_vars

\* Resolve calls of the file service against the two cache tiers
InitResolverSpec == IdlePipe /\ IdleOrders /\ InitCache /\ IdleRetry /\ IdleSvc /\ IdleThreads
SpecResolver == InitResolverSpec /\ [][NextResolver]_vars

\* Lookups of one request in one process, across the expiry of both tiers
InitLookupSpec == IdlePipe /\ IdleOrders /\ InitCache /\ IdleRetry /\ IdleSvc /\ IdleThreads
SpecLookup == InitLookupSpec /\ [][NextLookup]_vars

\* Cache keys computed in one process, whatever its hash seed
InitKeySpec ==
    /\ IdlePipe
    /\ IdleOrders
    /\ IdleRetry
    /\ IdleSvc
    /\ IdleThreads
    /\ now = 0
    /\ hash_seed \in HashSeeds
    /\ memory_cache = EmptyDict
    /\ cache_files = EmptyDict
    /\ driven = "both"
    /\ set_info = EmptyDict
    /\ ops = 0
    /\ prev_op = NoOp
    /\ last_op = NoOp
SpecKey == InitKeySpec /\ [][NextKey]_vars

\* One call of send_email through retry_on_failure
InitRetrySpec == IdlePipe /\ IdleOrders /\ InitCache /\ InitRetry /\ IdleSvc /\ IdleThreads
SpecRetry == InitRetrySpec /\ [][NextRetry]_vars

\* Two threads on one SimpleCache
InitThreadsSpec == IdlePipe /\ IdleOrders /\ IdleRetry /\ IdleSvc /\ InitThreads
SpecThreads == InitThreadsSpec /\ [][NextThreads]_vars

\* A get and a set of one key on FileCache, in two threads
InitFileRaceSpec == IdlePipe /\ IdleOrders /\ IdleRetry /\ IdleSvc /\ InitFileRace
SpecFileRace == InitFileRaceSpec /\ [][NextFileRace]_vars

\* Two request handlers of the file service running at once
InitHandlersSpec == IdlePipe /\ IdleOrders /\ IdleRetry /\ IdleSvc /\ InitHandlers
SpecHandlers == InitHandlersSpec /\ [][NextHandlers]_vars

\* Two overlapping runs of process_orders
InitRunsSpec == IdlePipe /\ IdleOrders /\ InitCache /\ IdleRetry /\ InitRuns
SpecRuns == InitRunsSpec /\ [][NextRuns]_vars

\* One query of the order service on one answer of the platform
InitSvcSpec == IdlePipe /\ IdleOrders /\ InitCache /\ IdleRetry /\ IdleThreads /\ InitSvc
SpecSvc == InitSvcSpec /\ [][NextSvc]_vars

\* One call of a get_format_info
InitFormatSpec ==
    IdlePipe /\ IdleOrders /\ InitCache /\ IdleRetry /\ IdleThreads /\ IdleSvc
SpecFormat == InitFormatSpec /\ [][NextFormat]_vars

\* get and set on one of the two cache objects
InitCacheSpec ==
    /\ IdlePipe
    /\ IdleOrders
    /\ IdleRetry
    /\ IdleSvc
    /\ IdleThreads
    /\ now = 0
    /\ hash_seed = "seed1"
    /\ memory_cache = EmptyDict
    /\ cache_files = EmptyDict
    /\ driven \in {"memory", "file"}
    /\ set_info = EmptyDict
    /\ ops = 0
    /\ prev_op = NoOp
    /\ last_op = NoOp
SpecCache == InitCacheSpec /\ [][NextCache]_vars

\* get and set on FileCache whose files get damaged
InitCorruptSpec ==
    /\ IdlePipe
    /\ IdleOrders
    /\ IdleRetry
    /\ IdleSvc
    /\ IdleThreads
    /\ now = 0
    /\ hash_seed = "seed1"
    /\ memory_cache = EmptyDict
    /\ cache_files = EmptyDict
    /\ driven = "file"
    /\ set_info = EmptyDict
    /\ ops = 0
    /\ prev_op = NoOp
    /\ last_op = NoOp
SpecCorrupt == InitCorruptSpec /\ [][NextCorrupt]_vars

(***************************************************************************)
(* Properties of process_orders (specification Spec).                      *)
(***************************************************************************)
\* The positions in calls of the calls of one operation
Idx(op) == {i \in 1..Len(calls) : calls[i].op = op}

EmailIdx == Idx("print_email") \cup Idx("missing_email")

FilesStepFailed ==
    \E i \in Idx("files") :
        calls[i].resp \in {"exception", "non200", "unparsable", "ok_search_raised"}

\* C1 as stated: the update-status call is issued only after a notification
\* has succeeded; a run in which no notification send returned success
\* issues no update-status call.
C1_UpdateOnlyAfterSuccess ==
    \A i \in Idx("update_status") : \E j \in EmailIdx : j < i /\ calls[j].ok

\* C1 amended: the update-status call is issued only after the notification
\* attempts of the run have completed, whatever their outcome: every
\* notification the resolution calls for has been attempted before it and
\* none is attempted after it.
C1_UpdateOnlyAfterAttempts ==
    \A i \in Idx("update_status") :
        /\ file_data.available_files # EmptyDict => \E j \in Idx("print_email") : j < i
        /\ file_data.missing_files # <<>> => \E j \in Idx("missing_email") : j < i
        /\ \A j \in EmailIdx : j < i

\* C1 witness: notifications were attempted, none succeeded, and the status
\* update was issued after them.
C1_Witness ==
    /\ Idx("update_status") # {}
    /\ Idx("print_email") # {} /\ Idx("missing_email") # {}
    /\ \A j \in EmailIdx : ~calls[j].ok

\* C2: when the health probe of a collaborator fails, the run has ended with
\* a failure result and has issued nothing but health probes: no order
\* query, no file resolution, no email send, no status update.
C2_HealthGate ==
    (\E i \in Idx("health") : calls[i].resp # "ok")
        => /\ pc = "done"
           /\ ret.success = FALSE /\ ret.has = "error"
           /\ \A j \in 1..Len(calls) : calls[j].op = "health"

\* C2 witness: the order service is healthy, the probe of the file service
\* fails and the run has ended.
C2_Witness ==
    /\ pc = "done"
    /\ Len(calls) = 2
    /\ calls[1].ok /\ calls[2].svc = "file-service" /\ calls[2].resp = "non200"

\* C3 as stated: when the file-resolution step fails entirely (file service
\* unreachable or non-200, or the provider search raises), the run ends
\* failed, with no notification and no status update.
C3_ResolveFailureAborts ==
    (pc = "done" /\ FilesStepFailed)
        => /\ ret.success = FALSE /\ ret.has = "error"
           /\ EmailIdx = {}
           /\ Idx("update_status") = {}

\* C5: a run that reached file resolution and has ended issued the
\* update-status call for every order id of the batch, as its last call,
\* after the notification attempts and whatever their outcome.
C5_UpdateAlwaysIssued ==
    (pc = "done" /\ Idx("files") # {})
        => /\ order_data.order_ids # <<>>
           /\ Idx("update_status") = {Len(calls)}
           /\ calls[Len(calls)].ids = order_data.order_ids
           /\ \A j \in EmailIdx : j < Len(calls)

\* C5 witness: both notifications were attempted and failed, and the update
\* for a batch of two orders was issued.
C5_Witness ==
    /\ pc = "done"
    /\ \E i \in Idx("print_email") : ~calls[i].ok
    /\ \E i \in Idx("missing_email") : ~calls[i].ok
    /\ \E i \in Idx("update_status") : Len(calls[i].ids) = 2

\* C6: the two notifications are independent: once the notifying steps are
\* over, the missing-files send was attempted if missing is non-empty and
\* the print-order send if available is non-empty, whatever the other did;
\* after a failed print-order send and a successful missing-files send the
\* run issues the status update and reports one email sent.
C6_NotificationsIndependent ==
    (pc \in {"update_status", "done"} /\ Idx("files") # {})
        => /\ file_data.missing_files # <<>> => Idx("missing_email") # {}
           /\ file_data.available_files # EmptyDict => Idx("print_email") # {}
           /\ ( /\ pc = "done"
                /\ \E i \in Idx("print_email") : ~calls[i].ok
                /\ \E i \in Idx("missing_email") : calls[i].ok )
              => /\ Idx("update_status") # {}
                 /\ ret.success /\ ret.results.emails_sent = 1

\* C6 witness: the print-order send raised, the missing-files send
\* succeeded and the status update was issued.
C6_Witness ==
    /\ pc = "done"
    /\ \E i \in Idx("print_email") : calls[i].resp = "exception"
    /\ \E i \in Idx("missing_email") : calls[i].ok
    /\ Idx("update_status") # {}

\* C8 as stated: when the check-new call or the fetch-details call fails
\* entirely (connection error, non-200, unparsable body), the run ends with
\* outcome failed.
C8_FetchFailureAborts ==
    (pc = "done" /\ \E i \in Idx("check") \cup Idx("details") : calls[i].resp # "ok")
        => ret.success = FALSE /\ ret.has = "error"

\* The notification sends answered 200 with success reported
SendsSucceeded == {i \in EmailIdx : calls[i].resp = "ok"}

\* C23: the notifications counter equals the number of notification sends
\* that returned success, during the notifying steps and in the counters a
\* completed run returns; it is 0, 1 or 2, and a send that raised, was
\* answered non-200 or unparsably, or was answered 200 without success is
\* not counted.
C23_EmailsSentCountsSuccesses ==
    /\ pc \in {"missing_email", "update_status"}
         => emails_sent = Cardinality(SendsSucceeded)
    /\ (pc = "done" /\ ret.has = "results")
         => /\ ret.results.emails_sent = Cardinality(SendsSucceeded)
            /\ ret.results.emails_sent \in 0..2

\* C23 witness: a completed run in which one send returned success and the
\* other was answered 200 without success reports one email sent.
C23_Witness ==
    /\ pc = "done" /\ ret.has = "results"
    /\ \E i \in Idx("print_email") : calls[i].resp = "ok_no_success"
    /\ \E i \in Idx("missing_email") : calls[i].resp = "ok"
    /\ ret.results.emails_sent = 1

\* C24: in a run that has reached the notifying steps, no notification is
\* issued before its block, and once its block is over the print-order
\* notification has been issued exactly once if available is non-empty and
\* not at all otherwise, and the missing-files notification exactly once if
\* missing is non-empty and not at all otherwise.
C24_EachNotificationOnce ==
    /\ pc = "print_email" => EmailIdx = {}
    /\ pc = "missing_email" => Idx("missing_email") = {}
    /\ pc \in {"missing_email", "update_status", "done"} /\ Idx("files") # {}
         => Cardinality(Idx("print_email"))
              = IF file_data.available_files # EmptyDict THEN 1 ELSE 0
    /\ pc \in {"update_status", "done"} /\ Idx("files") # {}
         => Cardinality(Idx("missing_email"))
              = IF file_data.missing_files # <<>> THEN 1 ELSE 0

\* C24 witness: a finished run in which a file was found and none is
\* missing issued the print-order notification and no missing-files one.
C24_Witness ==
    /\ pc = "done"
    /\ file_data.available_files # EmptyDict /\ file_data.missing_files = <<>>
    /\ Cardinality(Idx("print_email")) = 1
    /\ Idx("missing_email") = {}

\* C25: when check-new reports no valid new order, or fetch-details yields
\* an empty order_ids, the run has ended as a success with a message and no
\* counters, and has issued no file-resolution call, no notification and no
\* status update.
C25_NoWorkShortCircuits ==
    ( \/ \E i \in Idx("check") : ~calls[i].ok
      \/ Idx("details") # {} /\ order_data.order_ids = <<>> )
        => /\ pc = "done"
           /\ ret.success /\ ret.has = "message" /\ ret.results = NoResults
           /\ Idx("files") = {} /\ EmailIdx = {} /\ Idx("update_status") = {}

\* C25 witness: check-new reported new orders, fetch-details was answered
\* with an empty batch and the run has ended.
C25_Witness ==
    /\ pc = "done"
    /\ \E i \in Idx("check") : calls[i].ok
    /\ \E i \in Idx("details") : calls[i].resp = "ok"
    /\ order_data.order_ids = <<>>

(***************************************************************************)
(* Properties of process_orders whatever the collaborators answer          *)
(* (SpecAnyBody).                                                          *)
(***************************************************************************)
\* C21: whatever the collaborators do at each step (connection error,
\* non-200, unparsable or mistyped 200 body), process_orders never lets an
\* exception out: a run that is not over can take its next step, and a run
\* that is over has returned one result, success = true with a message or
\* the counters (Done) or success = false with an error (ServicesUnavailable
\* or Failed).
C21_SinglePassFailResult ==
    /\ pc # "done" => ENABLED NextAnyBody
    /\ pc = "done"
         => \/ ret.success /\ ret.has \in {"message", "results"}
            \/ ~ret.success /\ ret.has = "error"

\* C21 witness: a 200 body with a mistyped field made len() raise inside
\* process_orders and the run has ended with the failed result.
C21_Witness ==
    /\ pc = "done"
    /\ \E i \in Idx("files") : calls[i].resp = "ok_mistyped"
    /\ ret = Failed("TypeError")

(***************************************************************************)
(* Properties of OrderService.update_order_status (SpecOrders).            *)
(***************************************************************************)
\* C7 as stated: a failure while updating one order does not prevent the
\* update call from being issued for every remaining order id of the batch.
C7_PartialFailureTolerant ==
    us_pc = "done"
        => \A i \in us_failed : \A j \in (i + 1)..Len(us_ids) :
              IsIntString(us_ids[j])
                  => \E k \in 1..Len(us_posts) : us_posts[k].order_id = us_ids[j]

(***************************************************************************)
(* Properties of the cached resolver (SpecResolver).                       *)
(***************************************************************************)
\* C4 as stated: a provider search failure is never cached: after a resolve
\* whose provider call failed the key is absent from both tiers, the
\* failure is surfaced to the caller, and the next resolve with the same
\* filename set and scope invokes the provider again.
C4_FailureNotCached ==
    /\ (last_op.op = "resolve" /\ last_op.search_raised)
         => /\ last_op.key \notin DOMAIN memory_cache
            /\ CacheFile(last_op.key) \notin DOMAIN cache_files
            /\ last_op.source = "raised"
    /\ ( /\ prev_op.op = "resolve" /\ prev_op.search_raised
         /\ last_op.op = "resolve"
         /\ last_op.folder_id = prev_op.folder_id
         /\ Range(last_op.required_files) = Range(prev_op.required_files) )
         => last_op.searched

\* C9 as stated: of two consecutive resolve calls with the same filename
\* set and the same scope, made in one process within the tier TTLs, the
\* second returns the cached result without querying or re-sharing.
C9_SecondResolveCached ==
    ( /\ prev_op.op = "resolve" /\ prev_op.source # "raised"
      /\ last_op.op = "resolve"
      /\ last_op.folder_id = prev_op.folder_id
      /\ Range(last_op.required_files) = Range(prev_op.required_files)
      /\ last_op.at <= prev_op.at + MemoryTtl )
        => /\ ~last_op.searched
           /\ last_op.shared = {}
           /\ last_op.result = prev_op.result

\* C11 as stated: a tier-2 entry survives a process restart: after a resolve
\* that stored its result in tier-2 and a restart, a resolve for the same
\* non-empty filename list and scope made before the tier-2 entry expires is a tier-2
\* hit and does not invoke the provider search.
C11_FileTierSurvivesRestart ==
    ( /\ last_op.op = "resolve"
      /\ prev_op.op = "restart"
      /\ prev_op.before.op = "resolve"
      /\ prev_op.before.stored
      /\ last_op.required_files # <<>>
      /\ last_op.folder_id = prev_op.before.folder_id
      /\ last_op.required_files = prev_op.before.required_files
      /\ last_op.at <= prev_op.before.at + FileTtl )
        => /\ last_op.source = "file"
           /\ ~last_op.searched

\* C12 as stated: after delete(key) the key is absent from both tiers and
\* after a completed clear every key is absent from both tiers; with no
\* intervening set the next lookup of the key misses in both tiers.
C12_DeleteClearBothTiers ==
    /\ last_op.op = "delete"
         => /\ last_op.key \notin DOMAIN memory_cache
            /\ CacheFile(last_op.key) \notin DOMAIN cache_files
    /\ (last_op.op = "clear" /\ last_op.success)
         => /\ memory_cache = EmptyDict
            /\ cache_files = EmptyDict
    /\ ( /\ last_op.op = "resolve"
         /\ \/ prev_op.op = "delete" /\ prev_op.key = last_op.key
            \/ prev_op.op = "clear" /\ prev_op.success )
         => last_op.source \notin {"memory", "file"}

\* C15 as stated: with an empty required_files, resolve returns the empty
\* result at once: no get on either tier and no provider search.
C15_EmptyRequestShortCircuits ==
    (last_op.op = "resolve" /\ last_op.required_files = <<>>)
        => /\ last_op.reads = <<>>
           /\ ~last_op.searched
           /\ last_op.result = DriveResult(EmptyDict, <<>>)

\* C28 as stated: every result resolve returns has no filename both among
\* the keys of available and in missing, and has every requested filename,
\* compared lower-cased, among the keys of available or in missing.
C28_ResolutionInvariant ==
    (last_op.op = "resolve" /\ last_op.result.kind \in {"tuple", "list"})
        => LET available == DOMAIN last_op.result.available_files
               missing == Range(last_op.result.missing_files)
               requested == Range(last_op.required_files)
           IN  /\ available \cap missing = {}
               /\ \A name \in requested :
                     \/ Lower(name) \in available
                     \/ Lower(name) \in {Lower(m) : m \in missing}

(***************************************************************************)
(* Properties of get_drive_files_cache_key (SpecKey).                      *)
(***************************************************************************)
\* C16: within a process the cache key of a list equals the key of every
\* permutation of it under the same folder id, and differs from the key of
\* the same list under a different folder id.
C16_KeyOrderIndependent ==
    last_op.op = "key"
        => /\ last_op.key_permuted = last_op.key
           /\ last_op.other_folder # last_op.folder_id
                => last_op.key_other # last_op.key

\* C16 witness: a list with a rearrangement that differs from it, keyed
\* under two folder ids
C16_Witness ==
    /\ last_op.op = "key"
    /\ last_op.permuted # last_op.required_files
    /\ last_op.other_folder # last_op.folder_id
    /\ last_op.key_permuted = last_op.key

(***************************************************************************)
(* Properties of repeated lookups (SpecLookup).                            *)
(***************************************************************************)
\* The entry is one a get at time t returns
Live(entry, t) == entry.kind = "json" /\ t <= entry.expires_at

\* C17: a lookup that meets no live tier-1 entry and a live tier-2 entry
\* returns the tier-2 value without a provider search and writes it into
\* tier-1 with tier-1's TTL; the next lookup of the key in the process,
\* within that TTL, is served from tier-1 without a tier-2 read.
C17_Promotion ==
    /\ ( /\ last_op.op = "resolve"
         /\ ~Live(last_op.tier1, last_op.at)
         /\ Live(last_op.tier2, last_op.at) )
         => /\ last_op.source = "file"
            /\ last_op.result = last_op.tier2.value
            /\ ~last_op.searched
            /\ last_op.key \in DOMAIN memory_cache
            /\ memory_cache[last_op.key].value = last_op.tier2.value
            /\ memory_cache[last_op.key].expires_at = last_op.at + MemoryTtl
    /\ ( /\ last_op.op = "resolve"
         /\ prev_op.op = "resolve"
         /\ prev_op.source = "file"
         /\ last_op.key = prev_op.key
         /\ last_op.at <= prev_op.at + MemoryTtl )
         => /\ last_op.source = "memory"
            /\ last_op.reads = <<"memory">>
            /\ last_op.result = prev_op.result

\* C17 witness: a tier-2-only hit followed by a lookup served from tier-1
C17_Witness ==
    /\ last_op.op = "resolve"
    /\ prev_op.op = "resolve"
    /\ prev_op.source = "file"
    /\ ~Live(prev_op.tier1, prev_op.at)
    /\ last_op.key = prev_op.key
    /\ last_op.source = "memory"
    /\ last_op.reads = <<"memory">>

\* C35 as stated: a result a lookup returns from the cache was produced by a
\* provider search that ran at most the tier-2 TTL earlier: a tier-2 hit is
\* at most FileTtl after the search that wrote the tier-2 entry, a tier-1 hit
\* right after the search is at most FileTtl after it, and a tier-1 hit on a
\* value promoted by the lookup before is served no later than the expiry
\* of the tier-2 entry it was promoted from.
C35_FreshnessBound ==
    /\ (last_op.op = "resolve" /\ last_op.source = "file")
         => last_op.at <= last_op.tier2.created_at + FileTtl
    /\ ( /\ last_op.op = "resolve"
         /\ last_op.source = "memory"
         /\ prev_op.op = "resolve"
         /\ prev_op.key = last_op.key
         /\ prev_op.source = "provider" )
         => last_op.at <= prev_op.at + FileTtl
    /\ ( /\ last_op.op = "resolve"
         /\ last_op.source = "memory"
         /\ prev_op.op = "resolve"
         /\ prev_op.key = last_op.key
         /\ prev_op.source = "file" )
         => /\ last_op.at <= prev_op.tier2.created_at + FileTtl
            /\ last_op.at <= prev_op.tier2.expires_at

\* The stored file satisfies a requested filename: its lower-cased name is
\* the lower-cased requested name, or it has no .pdf ending and its name
\* followed by .pdf is
SatisfiesRequest(file, required_files) ==
    LET file_name_lower == Lower(file.name)
        required_files_lower == {Lower(required_files[i]) :
                                    i \in 1..Len(required_files)}
    IN  \/ file_name_lower \in required_files_lower
        \/ /\ ~EndsWithPdf(file_name_lower)
           /\ Append(file_name_lower, ".pdf") \in required_files_lower

\* C39 as stated: a lookup that runs the provider search grants read access
\* only on stored files that satisfy a requested filename; a file found
\* only because its name contains a requested base name is not shared.
C39_SharedOnlyRequested ==
    (last_op.op = "resolve" /\ last_op.searched)
        => \A file \in DriveFiles :
              file.id \in last_op.shared
                  => SatisfiesRequest(file, last_op.required_files)

(***************************************************************************)
(* Properties of SimpleCache and FileCache (SpecCache).                    *)
(***************************************************************************)
\* The value a get of the tier returns for a value given to set
Readback(tier, value) == IF tier = "file" THEN Json(value) ELSE value

\* C10 as stated: for an entry set at time created_at with ttl = t, every
\* get at now < created_at + t returns the value and every get at
\* now >= created_at + t, the instant created_at + t included, returns
\* absent.
C10_ExpiryAsStated ==
    (last_op.op = "get" /\ last_op.before.kind = "json")
        => /\ last_op.at < last_op.before.created_at + last_op.ttl
                => last_op.result = Readback(last_op.tier, last_op.value)
           /\ last_op.at >= last_op.before.created_at + last_op.ttl
                => last_op.result = NoneVal

\* C10 amended: for an entry set with ttl = t, expires_at is the first
\* clock reading of set plus t (created_at is read after it, so expires_at
\* <= created_at + t); every get at now <= expires_at returns the value,
\* the instant expires_at included, and every get at now > expires_at
\* returns absent.
C10_Expiry ==
    (last_op.op = "get" /\ last_op.before.kind = "json")
        => /\ last_op.before.expires_at = last_op.t_set + last_op.ttl
           /\ last_op.before.expires_at <= last_op.before.created_at + last_op.ttl
           /\ last_op.at <= last_op.before.expires_at
                => last_op.result = Readback(last_op.tier, last_op.value)
           /\ last_op.at > last_op.before.expires_at
                => last_op.result = NoneVal

\* C10 witness: a get at exactly created_at + t = expires_at, with t > 0,
\* that returned the value.
C10_Witness ==
    /\ last_op.op = "get" /\ last_op.before.kind = "json"
    /\ last_op.ttl > 0
    /\ last_op.at = last_op.before.created_at + last_op.ttl
    /\ last_op.at = last_op.before.expires_at
    /\ last_op.result # NoneVal

\* A step of SpecCache that is a get: the clock stands still and the
\* operation recorded after it is a get
GetStep(tier) == last_op'.op = "get" /\ last_op'.tier = tier /\ now' = now

\* What a get step on the stored entries before, after it, of the entry
\* named name must satisfy
LazyGet(before, after, name) ==
    /\ (name \in DOMAIN before /\ now > before[name].expires_at)
         => last_op'.result = NoneVal /\ name \notin DOMAIN after
    /\ (name \in DOMAIN before /\ now <= before[name].expires_at)
         => after = before /\ last_op'.result # NoneVal
    /\ \A other \in DOMAIN before \ {name} :
          other \in DOMAIN after /\ after[other] = before[other]

\* C33: a get in either tier that meets an entry with now > expires_at
\* returns absent and removes the entry from that tier; it leaves the
\* entries of the other keys as they were, and a get that meets an entry
\* with now <= expires_at removes nothing.
C33_LazyEviction ==
    [][ /\ GetStep("memory")
           => /\ LazyGet(memory_cache, memory_cache', last_op'.key)
              /\ cache_files' = cache_files
        /\ (GetStep("file") /\ \A f \in DOMAIN cache_files :
                                  cache_files[f].kind = "json")
           => /\ LazyGet(cache_files, cache_files', CacheFile(last_op'.key))
              /\ memory_cache' = memory_cache ]_vars

\* C33 witness: a get in tier-1 met an expired entry, returned absent and
\* removed it, and the entry of the other key is still stored.
C33_Witness ==
    /\ last_op.op = "get" /\ last_op.tier = "memory"
    /\ last_op.before.kind = "json"
    /\ last_op.at > last_op.before.expires_at
    /\ last_op.result = NoneVal
    /\ last_op.key \notin DOMAIN memory_cache
    /\ Cardinality(DOMAIN memory_cache) = 1

\* C34 as stated: every entry a set creates in either tier, for any ttl
\* the set accepts and any advance of the clock between its two clock
\* reads, has expires_at = created_at + ttl and expires_at > created_at.
C34_EntryInvariant ==
    (last_op.op = "set" /\ last_op.stored)
        => LET entry == IF last_op.tier = "memory"
                        THEN MemEntry(memory_cache, last_op.key)
                        ELSE FileEntry(cache_files, last_op.key)
           IN  /\ entry.expires_at = entry.created_at + last_op.ttl
               /\ entry.expires_at > entry.created_at

\* The keys a get at time t on cache would return a value for
Retrievable(cache, t) ==
    {k \in DOMAIN cache : SimpleCacheGet(cache, k, t).result # NoneVal}

\* C29: stats leaves the cache as it was, expired entries included, and
\* reports total_entries = active_entries + expired_entries with
\* total_entries the number of stored entries and active_entries the number
\* of entries a get at the same instant would return.
C29_StatsReadOnly ==
    last_op.op = "stats"
        => /\ memory_cache = last_op.before
           /\ last_op.result.total_entries = Cardinality(DOMAIN last_op.before)
           /\ last_op.result.total_entries
                = last_op.result.active_entries + last_op.result.expired_entries
           /\ last_op.result.active_entries
                = Cardinality(Retrievable(last_op.before, last_op.at))

\* C29 witness: stats counted one active and one expired entry, and the
\* expired entry is still stored.
C29_Witness ==
    /\ last_op.op = "stats"
    /\ last_op.result.active_entries = 1 /\ last_op.result.expired_entries = 1
    /\ Cardinality(DOMAIN memory_cache) = 2

(***************************************************************************)
(* Properties of retry_on_failure and send_email (SpecRetry).              *)
(***************************************************************************)
\* Every execution of the wrapped function so far failed
AllFailed == \A i \in 1..Len(invocations) : invocations[i].kind = "raised"

\* C13 as stated: the wrapped operation is executed at most max_attempts
\* times, max_attempts being the first parameter of the decorator (default
\* 3); with the default configuration an operation that always fails is
\* invoked exactly 3 times before the failure is propagated.
C13_AtMostMaxAttempts ==
    /\ rt_cfg.max_retries >= 1 => Len(invocations) <= rt_cfg.max_retries
    /\ (rt_pc = "raised" /\ rt_cfg = SendEmailRetry) => Len(invocations) = 3

\* C13 amended: the wrapped operation is executed at most max_retries + 1
\* times; a failure is propagated only after exactly max_retries + 1 failed
\* executions, which is 4 with the default configuration, and after
\* max_retries sleeps of delay, delay * backoff, ...
C13_AtMostRetriesPlusOne ==
    /\ Len(invocations) <= rt_cfg.max_retries + 1
    /\ Len(sleeps) <= rt_cfg.max_retries
    /\ rt_pc = "raised"
         => /\ AllFailed
            /\ Len(invocations) = rt_cfg.max_retries + 1
            /\ Len(sleeps) = rt_cfg.max_retries
    /\ (rt_pc = "raised" /\ rt_cfg = SendEmailRetry)
         => /\ Len(invocations) = 4
            /\ sleeps = <<1, 2, 4>>

\* C13 witness: the default configuration, every execution failed, the
\* failure propagated
C13_Witness ==
    /\ rt_pc = "raised"
    /\ rt_cfg = SendEmailRetry
    /\ AllFailed
    /\ Len(invocations) = 4

\* C14 as stated: for a send request that fails validation the body of
\* send_email is executed exactly once, with no retry and no backoff wait.
C14_ValidationFailsOnce ==
    Invalid(rt_args)
        => /\ Len(invocations) <= 1
           /\ sleeps = <<>>
           /\ rt_pc \in {"raised", "returned"} => Len(invocations) = 1

\* C22 as stated: when the attempts are exhausted the wrapper propagates
\* the failure of the final attempt to the caller, tagged with the number
\* of attempts that were made.
C22_FinalFailureTagged ==
    rt_pc = "raised"
        => /\ Propagated(last_exception).exception
                = invocations[Len(invocations)].value
           /\ "attempts" \in DOMAIN Propagated(last_exception)
           /\ Propagated(last_exception).attempts = Len(invocations)

RECURSIVE Pow(_, _)
Pow(b, n) == IF n = 0 THEN 1 ELSE b * Pow(b, n - 1)

\* C32: the wrapper waits exactly once between two consecutive executions,
\* the k-th wait lasting delay * backoff^(k-1); it does not wait before the
\* first execution nor after the last failed one; once an execution
\* succeeds its result is returned and the function is not executed again.
C32_BackoffSchedule ==
    /\ \A k \in 1..Len(sleeps) :
          sleeps[k] = rt_cfg.delay * Pow(rt_cfg.backoff, k - 1)
    /\ rt_pc = "call" => Len(sleeps) = Len(invocations)
    /\ rt_pc \in {"sleep", "raise", "raised", "returned"}
         => Len(sleeps) = Len(invocations) - 1
    /\ \A i \in 1..Len(invocations) :
          invocations[i].kind = "returned"
             => i = Len(invocations) /\ rt_pc = "returned"
    /\ rt_pc = "returned" => ~ENABLED NextRetry

\* C32 witness: two executions failed, the third succeeded after two waits
\* with backoff 3, and its result was returned.
C32_Witness ==
    /\ rt_pc = "returned"
    /\ rt_cfg.backoff = 3 /\ rt_cfg.delay = 1
    /\ Len(invocations) = 3
    /\ sleeps = <<1, 3>>

(***************************************************************************)
(* Properties of FileCache.get on damaged files (SpecCorrupt).             *)
(***************************************************************************)
\* C20 as stated: a get that meets a corrupt or unreadable cache file
\* returns absent and deletes the file; no exception reaches the caller.
C20_CorruptEntryIsMiss ==
    ( /\ last_op.op = "get"
      /\ last_op.tier = "file"
      /\ last_op.before.kind \in CorruptKinds )
        => /\ last_op.result = NoneVal
           /\ CacheFile(last_op.key) \notin DOMAIN cache_files

(***************************************************************************)
(* Properties of SimpleCache under concurrent calls (SpecThreads).         *)
(***************************************************************************)
\* The positions inside a with self._lock: block
InLock == {"get", "check", "del", "set", "delete", "clear", "cleanup_expired",
           "cleanup_delete", "release"}

\* C19: the statements of each operation run under the lock without another
\* operation in between: one thread at a time is inside a with block; the
\* entry a get has read is still the entry of the key when it checks and
\* deletes it; a get deletes only the entry it found expired, so never an
\* unexpired entry a concurrent set wrote; and cleanup_expired deletes only
\* entries that have expired.
C19_LockedOperationsAtomic ==
    /\ \A t, u \in Threads :
         (th[t].pc \in InLock /\ th[u].pc \in InLock) => t = u
    /\ \A t \in Threads :
         /\ th[t].pc \in InLock => lock = t
         /\ (th[t].op = "get" /\ th[t].pc \in {"check", "del"})
              => /\ th[t].key \in DOMAIN memory_cache
                 /\ memory_cache[th[t].key] = th[t].entry
         /\ th[t].op \in {"get", "cleanup_expired"}
              => \A r \in th[t].removed : r.at > r.entry.expires_at
         /\ th[t].op = "get"
              => /\ \A r \in th[t].removed : r.entry = th[t].entry
                 /\ th[t].result \in {NoneVal, th[t].entry.value}

\* C19 witness: a get and a set of the same key ran concurrently; the get
\* deleted the expired entry and the entry of the set is in the cache
C19_Witness ==
    \E t, u \in Threads :
        /\ th[t].op = "get" /\ th[t].pc = "done"
        /\ th[t].removed # {}
        /\ th[u].op = "set" /\ th[u].pc = "done"
        /\ th[u].key = th[t].key
        /\ th[t].key \in DOMAIN memory_cache
        /\ memory_cache[th[t].key] = th[u].entry

(***************************************************************************)
(* Properties of FileCache under a concurrent get and set (SpecFileRace).  *)
(***************************************************************************)
\* C18 as stated: a get concurrent with a set on the same key returns
\* absent, the previous value or the new value, never a partially written
\* entry, and once both have finished the entry written by set is present
\* in tier-2.
C18_ConcurrentGetKeepsEntry ==
    /\ th["t1"].pc = "done"
         => th["t1"].result \in {NoneVal, Json(OldValue), Json(ThreadValue)}
    /\ (th["t1"].pc = "done" /\ th["t2"].pc = "done")
         => /\ CacheFile(ThreadKey) \in DOMAIN cache_files
            /\ cache_files[CacheFile(ThreadKey)] = th["t2"].entry

(***************************************************************************)
(* Properties of concurrent request handlers (SpecHandlers).               *)
(***************************************************************************)
\* C36 as stated: when two lookups of the same request run concurrently,
\* the provider search (with its access grants) is performed at most once.
C36_SingleSearch ==
    (\A t \in Threads : th[t].job = "resolve")
        => Cardinality({t \in Threads : th[t].searched}) <= 1

\* The value of the entry cached before the handlers started is what a get
\* of the tier returns
EarlierRetrievable ==
    LET m == SimpleCacheGet(memory_cache, HandlerKey, now).result
        f == FileCacheGet(cache_files, HandlerKey, now).result
    IN  \/ m \in {EarlierResult, Json(EarlierResult)}
        \/ f \in {EarlierResult, Json(EarlierResult)}

\* C37 as stated: once a lookup and a cache clear that ran concurrently
\* have both returned, no entry written before the clear started is
\* retrievable from tier-1 or tier-2.
C37_ClearLeavesNothing ==
    ( /\ \E t \in Threads : th[t].job = "resolve"
      /\ \E t \in Threads : th[t].job = "clear"
      /\ \A t \in Threads : th[t].pc = "done" )
        => ~EarlierRetrievable

(***************************************************************************)
(* Properties of overlapping runs of process_orders (SpecRuns).            *)
(***************************************************************************)
\* C31: the orchestrator holds no run-level lock: a run that has not
\* started can start whatever the other run is doing, so runs overlap; in
\* the state C31_Witness describes both runs have fetched the same order,
\* both have sent a notification for it and both have issued its status
\* update.
C31_NoRunLock ==
    \A r \in Runs : th[r].pc = "idle" => ENABLED StartRun(r)

\* C31 witness: two runs that overlapped, both holding order 1001 in their
\* batch, both with a notification sent and both with the status update
\* for 1001 issued
C31_Witness ==
    /\ \E r \in Runs : th[r].overlaps
    /\ \A r \in Runs :
         /\ th[r].pc = "done"
         /\ "1001" \in Range(th[r].order_data.order_ids)
         /\ th[r].emails_sent >= 1
         /\ "1001" \in Range(th[r].updated)

(***************************************************************************)
(* Properties of the order service's queries (SpecSvc).                    *)
(***************************************************************************)
\* The validity rule: the payment is marked done, or it is unmarked and the
\* payment method is cash on delivery
ValidByRule(order) ==
    LET done == IF "payment_done" \in DOMAIN order THEN order.payment_done ELSE 0
        cod == IF "payment_method_cod" \in DOMAIN order
               THEN order.payment_method_cod ELSE 0
    IN  done # 0 \/ (done = 0 /\ cod = 1)

RuleIds == LET sel == SelectSeq(orders, ValidByRule)
           IN  [i \in 1..Len(sel) |-> Str(sel[i].order_id)]

ExampleOrders ==
    /\ Len(orders) = 3
    /\ \A i \in 1..3 : DOMAIN orders[i] = {"order_id", "products", "payment_done",
                                             "payment_method_cod"}
    /\ orders[1].payment_done = 1 /\ orders[1].payment_method_cod = 0
    /\ orders[2].payment_done = 0 /\ orders[2].payment_method_cod = 1
    /\ orders[3].payment_done = 0 /\ orders[3].payment_method_cod = 0

\* C26: check_for_new_orders reports new orders exactly when some order
\* satisfies the validity rule, and get_order_details puts into order_ids
\* exactly the orders satisfying it, in the platform's order; of the orders
\* [{done=1,cod=0},{done=0,cod=1},{done=0,cod=0}] exactly the first two
\* are selected.
C26_ValidityFilter ==
    /\ os_call.op = "check"
         => os_call.result = (\E i \in 1..Len(orders) : ValidByRule(orders[i]))
    /\ os_call.op = "details" => os_call.result.order_ids = RuleIds
    /\ (os_call.op = "details" /\ ExampleOrders)
         => os_call.result.order_ids = <<"1001", "1002">>
    /\ (os_call.op = "check" /\ ExampleOrders) => os_call.result = TRUE

\* C26 witness: get_order_details ran on the three example orders.
C26_Witness ==
    /\ os_call.op = "details"
    /\ ExampleOrders
    /\ os_call.result.order_ids = <<"1001", "1002">>

\* C27 as stated: in the batch get_order_details builds, every entry of
\* files is lower-cased, files holds no filename twice, and the set of
\* files equals the key set of quantities.
C27_BatchFilesUnique ==
    os_call.op = "details"
        => LET files == os_call.result.files
           IN  /\ \A i \in 1..Len(files) : files[i] = Lower(files[i])
               /\ NoRepeat(files)
               /\ Range(files) = DOMAIN os_call.result.quantities

\* The line items of all valid orders that are not skipped, in order
BatchLineItems(os) ==
    LET valid == ValidOrders(os)
    IN  SelectSeq(Concat([i \in 1..Len(valid) |-> valid[i].products]),
                  LAMBDA product : ~IsSocks(product))

\* The sum of the quantities of the line items named filename
RECURSIVE SumQuantities(_, _)
SumQuantities(products, filename) ==
    IF products = <<>> THEN 0
    ELSE (IF Filename(Head(products).sku) = filename
          THEN Head(products).quantity ELSE 0)
         + SumQuantities(Tail(products), filename)

\* C38 as stated: the quantity get_order_details records for a filename is
\* the sum of the quantities of all line items of the valid orders that
\* have that filename.
C38_QuantitiesSummed ==
    os_call.op = "details"
        => \A filename \in DOMAIN os_call.result.quantities :
              os_call.result.quantities[filename]
                  = SumQuantities(BatchLineItems(orders), filename)

(***************************************************************************)
(* Properties of get_format_info (SpecFormat).                             *)
(***************************************************************************)
\* The annotation the rules give a file name, read case-insensitively
LabelByRule(filename) ==
    LET name == Lower(filename)
    IN  IF Contains(name, <<"_", "b", "2">>) THEN "format 50 x 70 cm"
        ELSE IF EndsWith(name, <<"_", "4", "5">>) THEN "format 40x50 cm"
        ELSE IF Contains(name, <<"_", "a", "3">>) THEN "format 30x40 cm"
        ELSE ""

\* C30 as stated: in both get_format_info implementations the annotation
\* of a file name is the 50x70 label when the name contains _b2, otherwise
\* the 40x50 label when it ends with _45, otherwise the 30x40 label when it
\* contains _a3, otherwise none, case-insensitively.
C30_FormatAnnotation ==
    fi_call.op = "format" => fi_call.format_info = LabelByRule(fi_call.filename)

====
